---- MODULE Spec2Model ----
(***************************************************************************)
(* A model of fetch-notion.mjs: the incremental Notion -> JSON/asset-cache *)
(* synchroniser.  Timestamps are integers (one unit = one minute); ISO     *)
(* strings of one format compare as the instants they denote.              *)
(***************************************************************************)
EXTENDS Integers, Sequences, FiniteSets, TLC

Null == "null"

Min(a, b) == IF a <= b THEN a ELSE b

RECURSIVE Pow2(_)
Pow2(k) == IF k <= 0 THEN 1 ELSE 2 * Pow2(k - 1)

(***************************************************************************)
(* withRetry                                                               *)
(***************************************************************************)
VARIABLES
    build,      \* which copy of fetch-notion.mjs runs: the current file or the older copy
    rTries,     \* the tries argument
    rPc,        \* position inside withRetry: "try", "sleep", "returned", "thrown"
    rN,         \* n, the number of failures so far
    rCalls,     \* how many times fn has been invoked
    rWait,      \* wait, as computed in the last catch
    rSlept,     \* the delays actually slept, in order
    rResult,    \* the attempt whose value was returned (0: none)
    rError      \* the attempt whose failure was thrown to the caller (0: none)

retryVars == <<build, rTries, rPc, rN, rCalls, rWait, rSlept, rResult, rError>>

MaxTries == 6

DefaultTries == 5
BaseWaitMs == 250
WaitCapMs == 2500
OldWaitCapMs == 2000

Builds == {"fetch-notion.mjs", "part_000"}

WaitCap(b) == IF b = "fetch-notion.mjs" THEN WaitCapMs ELSE OldWaitCapMs

\* const wait = Math.min(cap, 250 * 2 ** (n - 1))
WaitUncapped(b, n) == BaseWaitMs * Pow2(n - 1)
Wait(b, n) == Min(WaitCap(b), BaseWaitMs * Pow2(n - 1))

\* if (n >= tries) throw e
ExhaustedOffByOne(n, tries) == n > tries
Exhausted(n, tries) == n >= tries

\* tries = 5 when the argument is left out
TriesOrDefault(given, arg) == IF given THEN arg ELSE DefaultTries

(***************************************************************************)
(* downloadFileCached: the asset cache over state.images and images/       *)
(***************************************************************************)
VARIABLES
    images,     \* state.images: a function from the keys present to their records
    files,      \* the files of images/: a set of [name, bytes]
    calls,      \* downloadFileCached calls made so far; also the clock of "updated"
    aCall       \* the last call: its arguments, what it returned, whether it fetched and wrote

assetVars == <<images, files, calls, aCall>>

MaxCalls == 3

\* no path: the null that cached?.local || null yields
NoName == [hint |-> Null, hash12 |-> Null, ext |-> <<>>]
NoLocal == [dir |-> Null, name |-> NoName]
\* what state.images[key] reads as when the key is absent
NoRec == [local |-> NoLocal, hash |-> <<>>, size |-> 0, updated |-> 0, last_url |-> Null]
NoImages == [k \in {} |-> NoRec]
Rec(imgs, key) == IF key \in DOMAIN imgs THEN imgs[key] ELSE NoRec

\* `block:${b.id}:image`, `block:${b.id}:file`, `page:${id}:cover`
BlockKey(id, slot) == <<"block:", id, ":", slot>>
PropKey(id, prop, i) == <<"page:", id, ":prop:", prop, ":", i>>
CoverKey(id) == <<"page:", id, ":", "cover">>
NoCall == [key |-> <<>>, url |-> Null, hint |-> Null, net |-> "none", bytes |-> Null,
           stale |-> FALSE, ret |-> NoLocal, fetched |-> FALSE, caught |-> FALSE,
           wrote |-> FALSE, threw |-> FALSE]

\* the binary slots the callers name
Keys == {BlockKey("b1", "image"), CoverKey("p1")}
\* the fnameHint values the call sites pass; the function takes any with any key
Hints == {"image", "cover"}

\* contents a URL can serve
Bytes == {"bytesA", "bytesB"}
ByteLength(b) == IF b = "bytesA" THEN 3 ELSE 5

\* sha1(buf) as hex, split where hash.slice(0, 12) cuts it; distinct contents
\* have distinct digests and distinct 12-digit prefixes
Sha1(b) == IF b = "bytesA" THEN [head |-> "0a0a0a0a0a0a", tail |-> "a1"]
                           ELSE [head |-> "0b0b0b0b0b0b", tail |-> "b2"]

\* source URLs: parse says whether new URL(u) succeeds, last is the text after
\* the last '.' of the pathname (the whole pathname when it has no dot)
Urls == {"https://s3/a.png?sig=1", "https://s3/a.png?sig=2", "https://cdn/download"}
UrlParts(u) ==
    CASE u = "https://s3/a.png?sig=1" -> [parse |-> TRUE, last |-> <<"p", "n", "g">>]
      [] u = "https://s3/a.png?sig=2" -> [parse |-> TRUE, last |-> <<"p", "n", "g">>]
      [] OTHER -> [parse |-> TRUE,
                   last |-> <<"/", "d", "o", "w", "n", "l", "o", "a", "d">>]

MaxExtLen == 6

\* safeExtFromUrl(u, 'bin')
SafeExtFromUrl(u) ==
    LET parts == UrlParts(u)
    IN  IF ~parts.parse THEN <<"b", "i", "n">>
        ELSE IF parts.last = <<>> \/ Len(parts.last) > MaxExtLen THEN <<"b", "i", "n">>
        ELSE parts.last

\* what the try block meets: a 2xx response with a body ("ok"), another status,
\* a throw of fetch, a throw of res.arrayBuffer() ("body"), or a 2xx response
\* whose writeFileSync throws when it is reached ("write")
NetOutcomes == [kind : {"ok", "write"}, bytes : Bytes]
               \cup {[kind |-> "status", bytes |-> Null], [kind |-> "throw", bytes |-> Null],
                     [kind |-> "body", bytes |-> Null]}
NoNet == [kind |-> "none", bytes |-> Null]

FileNames(fs) == {f.name : f \in fs}

\* the reuse test of a call with this key and URL:
\* cached?.local is set and fs.existsSync(abs)
CacheHitNever(imgs, fs, key, url) == FALSE
CacheHitRecordOnly(imgs, fs, key, url) == Rec(imgs, key).local # NoLocal
CacheHitSameUrl(imgs, fs, key, url) ==
    /\ Rec(imgs, key).local # NoLocal
    /\ Rec(imgs, key).local.name \in FileNames(fs)
    /\ Rec(imgs, key).last_url = url
CacheHit(imgs, fs, key, url) ==
    /\ Rec(imgs, key).local # NoLocal
    /\ Rec(imgs, key).local.name \in FileNames(fs)

\* the record of the key names a file that is not on disk
Stale(imgs, fs, key) ==
    /\ Rec(imgs, key).local # NoLocal
    /\ Rec(imgs, key).local.name \notin FileNames(fs)

\* fs.existsSync(dst), the test that guards writeFileSync(dst, buf)
DstExistsNever(fs, name) == FALSE
DstExists(fs, name) == name \in FileNames(fs)

\* the hash field of a record: `sha1:${hash}`
HashField(b) == <<"sha1:", Sha1(b).head, Sha1(b).tail>>

\* !url: the caller had no URL (null, undefined) or an empty one
AbsentOnlyNull(url) == url = Null
Absent(url) == url \in {Null, ""}

\* what the two failure returns yield: cached?.local || null
FailureForgets(cached) == NoLocal
FailureReturn(cached) == cached.local

\* state.images[key] = rec
StoreRecordAlone(imgs, key, rec) == [k \in {key} |-> rec]
StoreRecord(imgs, key, rec) ==
    [k \in DOMAIN imgs \cup {key} |-> IF k = key THEN rec ELSE imgs[k]]

\* `${fnameHint}-${hash.slice(0, 12)}.${ext}`: the hint, the first twelve hex
\* digits of the digest, the extension
AssetNameHashTail(hint, hash, ext) == [hint |-> hint, hash12 |-> hash.tail, ext |-> ext]
AssetName(hint, hash, ext) == [hint |-> hint, hash12 |-> hash.head, ext |-> ext]

\* whether the call gets as far as fetch(url)
NeedsFetch(imgs, fs, key, url) == ~Absent(url) /\ ~CacheHit(imgs, fs, key, url)

\* downloadFileCached(key, url, fnameHint, state) at time now, the network answering net
DownloadFileCached(imgs, fs, key, url, hint, net, now) ==
    LET cached == Rec(imgs, key)
        same == [images |-> imgs, files |-> fs, wrote |-> FALSE, threw |-> FALSE]
    IN  IF Absent(url)
          THEN [ret |-> cached.local, fetched |-> FALSE, caught |-> FALSE] @@ same
        ELSE IF CacheHit(imgs, fs, key, url)
          THEN [ret |-> cached.local, fetched |-> FALSE, caught |-> FALSE] @@ same
        ELSE IF net.kind \notin {"ok", "write"}
          THEN [ret |-> FailureReturn(cached), fetched |-> TRUE, caught |-> TRUE] @@ same
        ELSE
          LET hash == Sha1(net.bytes)
              ext  == SafeExtFromUrl(url)
              name == AssetName(hint, hash, ext)
              localRel == [dir |-> "./images", name |-> name]
              exists == DstExists(fs, name)
          IN  IF net.kind = "write" /\ ~exists
                THEN [ret |-> FailureReturn(cached), fetched |-> TRUE, caught |-> TRUE] @@ same
              ELSE
              [ret |-> localRel,
               fetched |-> TRUE,
               caught |-> FALSE,
               wrote |-> ~exists,
               threw |-> FALSE,
               files |-> IF exists THEN fs ELSE fs \cup {[name |-> name, bytes |-> net.bytes]},
               images |-> StoreRecord(imgs, key, [local |-> localRel,
                                                  hash |-> HashField(net.bytes),
                                                  size |-> ByteLength(net.bytes),
                                                  updated |-> now,
                                                  last_url |-> url])]

(***************************************************************************)
(* listBlocks: the block tree of a resource                                *)
(***************************************************************************)

\* a block as blocks.children.list returns it
Block(id, type, kids, url) == [id |-> id, type |-> type, has_children |-> kids, url |-> url]

\* the answer to blocks.children.list({ block_id: id, start_cursor: cursor }):
\* tree[id] is the sequence of pages the remote cuts the children of id into,
\* cursor 0 is the undefined of the first request
ChildrenList(tree, id, cursor) ==
    LET k == IF cursor = 0 THEN 1 ELSE cursor
    IN  [results |-> tree[id][k],
         has_more |-> k < Len(tree[id]),
         next_cursor |-> IF k < Len(tree[id]) THEN k + 1 ELSE 0]

\* no request fails
NoFail == <<Null, 0>>
\* no request fails, and fs.writeFileSync of the page snapshot throws
WriteFails == <<"writeFileSync", 0>>

\* all.push(...res.results)
PushFront(all, results) == results \o all
Push(all, results) == all \o results

\* the while (true) loop of listBlocks from cursor on.  failAt names the request
\* on which withRetry gives up and throws; lists counts the requests made
RECURSIVE ListLevel(_, _, _, _, _, _)
ListLevel(tree, id, cursor, all, lists, failAt) ==
    IF <<id, cursor>> = failAt
      THEN [ok |-> FALSE, all |-> all, lists |-> lists + 1]
      ELSE LET res == ChildrenList(tree, id, cursor)
           IN  IF ~res.has_more
                 THEN [ok |-> TRUE, all |-> Push(all, res.results), lists |-> lists + 1]
                 ELSE ListLevel(tree, id, res.next_cursor, Push(all, res.results),
                                lists + 1, failAt)

\* the effects a sync unit threads through its calls: state.images, images/,
\* the counts of list requests, asset fetches and asset files written, and
\* whether a list request of the unit threw
Effects(imgs, fs) ==
    [images |-> imgs, files |-> fs, lists |-> 0, fetches |-> 0, writes |-> 0,
     listThrew |-> FALSE]

\* one downloadFileCached call inside a sync unit; env.served is what each
\* URL answers during the unit and env.now its time
Downloaded(s, r) ==
    [ret |-> r.ret,
     s |-> [images |-> r.images,
            files |-> r.files,
            lists |-> s.lists,
            listThrew |-> s.listThrew,
            fetches |-> s.fetches + (IF r.fetched THEN 1 ELSE 0),
            writes |-> s.writes + (IF r.wrote THEN 1 ELSE 0)]]

CachedDownload(s, key, url, hint, env) ==
    Downloaded(s, DownloadFileCached(s.images, s.files, key, url, hint,
                                     IF NeedsFetch(s.images, s.files, key, url)
                                       THEN env.served[url] ELSE NoNet,
                                     env.now))

NoChildren == [present |-> FALSE, list |-> <<>>]

\* b.children = await listBlocks(b.id, state): a throw of the inner call is a
\* throw of the outer one
ChildListingSwallowed(kids) == FALSE
ChildListingThrew(kids) == ~kids.ok

\* if (b.has_children) b.children = await listBlocks(b.id, state)
ChildrenAlways(b, kids) == [present |-> TRUE, list |-> kids.blocks]
Children(b, kids) ==
    IF b.has_children THEN [present |-> TRUE, list |-> kids.blocks] ELSE NoChildren

\* listBlocks(blockId, state): ok is FALSE when a list request threw
RECURSIVE ListBlocks(_, _, _, _), EachBlock(_, _, _, _, _, _)
ListBlocks(tree, id, env, s) ==
    LET lvl == ListLevel(tree, id, 0, <<>>, s.lists, env.failAt)
        s1 == [s EXCEPT !.lists = lvl.lists, !.listThrew = s.listThrew \/ ~lvl.ok]
    IN  IF ~lvl.ok
          THEN [ok |-> FALSE, blocks |-> <<>>, s |-> s1]
          ELSE EachBlock(tree, lvl.all, 1, <<>>, env, s1)

\* the for (const b of all) loop of listBlocks from the i-th block on
EachBlock(tree, all, i, out, env, s) ==
    IF i > Len(all)
      THEN [ok |-> TRUE, blocks |-> out, s |-> s]
      ELSE
        LET b == all[i]
            kids == IF b.has_children
                      THEN ListBlocks(tree, b.id, env, s)
                      ELSE [ok |-> TRUE, blocks |-> <<>>, s |-> s]
        IN  IF ChildListingThrew(kids)
              THEN [ok |-> FALSE, blocks |-> <<>>, s |-> kids.s]
              ELSE
                LET d == IF b.type \in {"image", "file"}
                           THEN CachedDownload(kids.s, BlockKey(b.id, b.type), b.url,
                                               b.type, env)
                           ELSE [ret |-> NoLocal, s |-> kids.s]
                    done == [id |-> b.id, type |-> b.type, has_children |-> b.has_children,
                             url |-> b.url,
                             children |-> Children(b, kids),
                             local |-> d.ret]
                IN  EachBlock(tree, all, i + 1, Append(out, done), env, d.s)

(***************************************************************************)
(* The run: main, fetchPageIfChanged, syncDatabase, the state file         *)
(***************************************************************************)
VARIABLES
    ids,        \* the configured slots whose identifier normalizes to an id
    fetchBlocksForRows, \* whether FETCH_BLOCKS_FOR_DB is '1' in the environment
    horizon,    \* the time up to which the behaviour is followed
    now,        \* the time, in minutes
    upPage,     \* upstream: last_edited_time of each page
    upRows,     \* upstream: last_edited_time of each row of each database, NoTime when absent
    pc,         \* where main is: "off", a slot, or "save"
    phase,      \* inside syncDatabase: "query" before the rows are merged, "write" after
    fullMode,   \* main's fullMode
    sinceISO,   \* main's sinceISO
    mem,        \* the state object of the run: lastSyncISO, pages, dbItems
    disk,       \* .cache/state.json
    pageFile,   \* notion-data/page-<alias>.json
    dbFile,     \* notion-data/db-<name>.json
    byId,       \* syncDatabase's byId between its two phases
    saves,      \* saveState calls of the current run
    synced,     \* the slots whose sync has returned in the current run
    written,    \* the pages whose snapshot the current run has written
    unsaved,    \* the pages whose snapshot was written by a run that failed before saveState
    outcome,    \* how the last finished run ended: "none", "saved", "failed"
    last        \* what the last sync unit did

runVars == <<ids, fetchBlocksForRows, horizon, now, upPage, upRows, pc, phase, fullMode,
             sinceISO, mem, disk,
             pageFile, dbFile, byId, saves, synced, written, unsaved, outcome, last>>

\* how long a behaviour is followed: with one slot configured, with two
MaxTime == 3
MaxTimeOfTwo == 1

MarginMinutes == 2

\* null where a time is expected: below every time and every time minus the margin
NoTime == -10

PageSlots == {"home", "intro", "culture"}
DbSlots == {"members", "blog"}
Slots == PageSlots \cup DbSlots

\* the order in which main goes through its slots, then saves
\* the aliasOut main passes with each page
Alias == [home |-> "home", intro |-> "introduction", culture |-> "culture"]
Order == <<"home", "intro", "culture", "members", "blog", "save">>
SaveEarly(slot) == "save"
After(slot) == Order[(CHOOSE i \in 1..Len(Order) : Order[i] = slot) + 1]

\* the order in which the remote lists the rows of a database
RowOrder(rows) == SelectSeq(<<"A", "B", "C", "D">>, LAMBDA r : r \in DOMAIN rows)

\* isoMinusMinutes(iso, mins)
IsoMinusMinutes(iso, mins) == IF iso = NoTime THEN NoTime ELSE iso - mins

\* ---- the state file ----
NoPage == [last_edited_time |-> NoTime, cover_local |-> NoLocal]
NoItems == [r \in {} |-> NoTime]
\* the maps of the state object; missing names those the object does not have
Maps == {"pages", "dbItems", "images"}
FreshState == [lastSyncISO |-> NoTime, pages |-> [p \in PageSlots |-> NoPage],
               dbItems |-> NoItems, missing |-> {}]
\* the state file: json is what its content parses to ("object", "null",
\* "primitive", or "garbage" when it does not parse), missing the maps an
\* object does not hold
NoStateFile == [exists |-> FALSE, json |-> "none", missing |-> {}, lastSyncISO |-> NoTime,
                pages |-> FreshState.pages, dbItems |-> NoItems, images |-> NoImages]

\* JSON.parse(fs.readFileSync(STATE_F, 'utf-8')) throws
ParseThrows(d) == d.json = "garbage"
\* if (!s.images) s.images = {} throws: s is null, or a primitive (a module is
\* strict code, where setting a property of a primitive is a TypeError)
DefaultsThrow(d) == d.json \in {"null", "primitive"}
\* the maps still absent after the three defaults of lines 81-83
AbsentWithoutDefaults(absent) == absent
AbsentAfterDefaults(absent) == {}

\* loadState(): the state object and its images
LoadState(d) ==
    IF ~d.exists \/ ParseThrows(d) \/ DefaultsThrow(d)
      THEN [state |-> FreshState, images |-> NoImages]
      ELSE [state |-> [lastSyncISO |-> d.lastSyncISO,
                       pages |-> IF "pages" \in d.missing THEN FreshState.pages ELSE d.pages,
                       dbItems |-> IF "dbItems" \in d.missing THEN NoItems ELSE d.dbItems,
                       missing |-> AbsentAfterDefaults(d.missing)],
            images |-> IF "images" \in d.missing THEN NoImages ELSE d.images]

\* what saveState(state) writes
StateJson(m, imgs) ==
    [exists |-> TRUE, json |-> "object", missing |-> {}, lastSyncISO |-> m.lastSyncISO,
     pages |-> m.pages, dbItems |-> m.dbItems, images |-> imgs]

\* the state files a run can find: none, one that does not parse, one that
\* parses to null or to a primitive, and objects with or without a watermark,
\* with or without each map, the pages map empty or holding the home page
StoredCover == [dir |-> "./images",
                name |-> [hint |-> "cover", hash12 |-> "0b0b0b0b0b0b", ext |-> <<"p", "n", "g">>]]
StoredPages ==
    {[last_edited_time |-> 0, cover_local |-> NoLocal],
     [last_edited_time |-> 1, cover_local |-> NoLocal],
     [last_edited_time |-> 0, cover_local |-> StoredCover]}
StateFiles ==
    {NoStateFile}
    \cup {[NoStateFile EXCEPT !.exists = TRUE, !.json = j] : j \in {"garbage", "null", "primitive"}}
    \cup {[NoStateFile EXCEPT !.exists = TRUE, !.json = "object", !.missing = a,
                              !.lastSyncISO = t,
                              !.pages = IF known /\ "pages" \notin a
                                          THEN [FreshState.pages EXCEPT
                                                  !["home"] = stored]
                                          ELSE FreshState.pages] :
            a \in SUBSET Maps, t \in {NoTime, 0}, known \in BOOLEAN, stored \in StoredPages}

\* the state file after main().catch has run: process.exit(1), nothing saved
DiskAfterFailureSaved(d, m, imgs) == StateJson(m, imgs)
DiskAfterFailure(d, m, imgs) == d

\* const fullMode = process.env.FULL_RECONCILE === '1' || !state.lastSyncISO
FullModeFlagOnly(forceFull, st) == forceFull
FullMode(forceFull, st) == forceFull \/ st.lastSyncISO = NoTime

\* const sinceISO = fullMode ? null : isoMinusMinutes(state.lastSyncISO, 2)
SinceISO(full, st) == IF full THEN NoTime ELSE IsoMinusMinutes(st.lastSyncISO, MarginMinutes)

\* ---- fetchPageIfChanged ----

\* the block tree of a page: two pages of children, the first block nested
PageTree(p) ==
    (p :> << <<Block(p \o ".text", "paragraph", TRUE, Null)>>,
             <<Block(p \o ".img", "image", FALSE, "https://s3/a.png?sig=1")>> >>)
    @@ (p \o ".text" :> << <<Block(p \o ".leaf", "paragraph", FALSE, Null)>> >>)

\* the list requests listBlocks makes for a page
ListRequests(p) == {<<p, 0>>, <<p, 2>>, <<p \o ".text", 0>>}

\* the list requests listBlocks makes for the rows of a database
RowListRequests(rows) == {<<r, 0>> : r \in DOMAIN rows}

\* the URLs a run fetches, and what they can answer
RunUrls == {"https://s3/a.png?sig=1"}
RunOutcomes == {[kind |-> "ok", bytes |-> "bytesA"], [kind |-> "status", bytes |-> Null]}

\* const changed = !prev || (meta.last_edited_time > prev.last_edited_time)
ChangedOrEqual(prev, edited) == prev = NoPage \/ edited >= prev.last_edited_time
ChangedIfDiffers(prev, edited) == prev = NoPage \/ edited # prev.last_edited_time
Changed(prev, edited) == prev = NoPage \/ edited > prev.last_edited_time

NoPayload == [exists |-> FALSE, last_edited_time |-> NoTime, blocks |-> <<>>,
              cover_local |-> NoLocal]

\* const localCover = cov
\*   ? await downloadFileCached(coverKey, cov, 'cover', state)
\*   : (state.images[coverKey]?.local || prev?.cover_local || null)
LocalCoverNoFallback(p, cov, env, prev, s) ==
    IF cov # Null
      THEN CachedDownload(s, CoverKey(p), cov, "cover", env)
      ELSE [ret |-> NoLocal, s |-> s]
LocalCover(p, cov, env, prev, s) ==
    IF cov # Null
      THEN CachedDownload(s, CoverKey(p), cov, "cover", env)
      ELSE [ret |-> IF Rec(s.images, CoverKey(p)).local # NoLocal
                      THEN Rec(s.images, CoverKey(p)).local
                      ELSE prev.cover_local,
            s |-> s]

\* the payload of a page, its write and the update of state.pages
WritePage(p, edited, m, pfile, blocks, c) ==
    [threw |-> FALSE,
     changed |-> TRUE,
     ret |-> [exists |-> TRUE, last_edited_time |-> edited, blocks |-> blocks,
              cover_local |-> c.ret],
     mem |-> [m EXCEPT !.pages[p] = [last_edited_time |-> edited, cover_local |-> c.ret]],
     pageFile |-> [pfile EXCEPT ![p] = [exists |-> TRUE, last_edited_time |-> edited,
                                        blocks |-> blocks, cover_local |-> c.ret]],
     s |-> c.s,
     wrote |-> TRUE]

\* the snapshot files when listBlocks(pageId, state) throws: writeFileSync comes
\* after the await, so the throw leaves before it
PageFileWrittenEarly(pfile, p, edited, t) ==
    [pfile EXCEPT ![p] = [exists |-> TRUE, last_edited_time |-> edited,
                          blocks |-> t.blocks, cover_local |-> NoLocal]]
PageFileAfterThrow(pfile, p, edited, t) == pfile

\* const fname = aliasOut ? `page-${aliasOut}.json` : `page-${pageId}.json`
Fname(aliasOut, pageId) ==
    IF aliasOut # Null THEN <<"page-", aliasOut, ".json">> ELSE <<"page-", pageId, ".json">>

\* state.pages when fs.writeFileSync throws: the assignment comes after it
PagesSetBeforeWrite(m, p, edited, c) ==
    [m EXCEPT !.pages[p] = [last_edited_time |-> edited, cover_local |-> c.ret]]
PagesAfterWriteThrow(m, p, edited, c) == m

\* the write of the payload and what follows it
WriteOrThrow(p, edited, env, m, pfile, idle, t, c) ==
    IF env.failAt # WriteFails
      THEN WritePage(p, edited, m, pfile, t.blocks, c)
      ELSE [idle EXCEPT !.threw = TRUE, !.changed = TRUE, !.s = c.s,
                        !.mem = PagesAfterWriteThrow(m, p, edited, c)]

\* fetchPageIfChanged once the page is known to have changed; t is what
\* listBlocks(pageId, state) gave
FetchChangedPage(p, edited, cov, env, m, pfile, idle, t) ==
    IF ~t.ok
      THEN [idle EXCEPT !.threw = TRUE, !.changed = TRUE, !.s = t.s,
                        !.pageFile = PageFileAfterThrow(pfile, p, edited, t)]
      ELSE WriteOrThrow(p, edited, env, m, pfile, idle, t,
                        LocalCover(p, cov, env, m.pages[p], t.s))

\* fetchPageIfChanged(pageId, aliasOut, state): metaOk is whether pages.retrieve
\* answered, edited and cov are the last_edited_time and cover URL it answered
FetchPageIfChanged(p, metaOk, edited, cov, env, m, imgs, fs, pfile) ==
    LET idle == [threw |-> FALSE, changed |-> FALSE, ret |-> NoPayload, mem |-> m,
                 pageFile |-> pfile, s |-> Effects(imgs, fs), wrote |-> FALSE]
    IN  IF ~metaOk THEN [idle EXCEPT !.threw = TRUE]
        ELSE IF ~Changed(m.pages[p], edited) THEN idle
        ELSE FetchChangedPage(p, edited, cov, env, m, pfile, idle,
                              ListBlocks(PageTree(p), p, env, Effects(imgs, fs)))

\* ---- syncDatabase ----

\* the filter of a databases.query body
NoFilter == [timestamp |-> Null, op |-> Null, value |-> NoTime]

\* the body queryDatabaseIncremental builds for every request: if (sinceISO)
\* body.filter = { timestamp: 'last_edited_time', last_edited_time: { on_or_after: sinceISO } }
QueryFilterAfter(since) ==
    IF since # NoTime
      THEN [timestamp |-> "last_edited_time", op |-> "after", value |-> since]
      ELSE NoFilter
QueryFilter(since) ==
    IF since # NoTime
      THEN [timestamp |-> "last_edited_time", op |-> "on_or_after", value |-> since]
      ELSE NoFilter

\* the remote's reading of a filter on a row edited at time t
Passes(filter, t) ==
    CASE filter.op = "on_or_after" -> t >= filter.value
      [] filter.op = "after" -> t > filter.value
      [] OTHER -> TRUE

\* the cover URL of a row, and the URLs of the files of its one files property
RowCover(id) == IF id = "A" THEN "https://s3/a.png?sig=1" ELSE Null
RowFiles(id) == IF id = "D" THEN <<"https://s3/a.png?sig=1", Null>> ELSE <<>>
FilesProp == "photo"

\* a row as databases.query returns it
Row(id, t) ==
    [id |-> id, last_edited_time |-> t, cover |-> RowCover(id), files |-> RowFiles(id),
     cover_local |-> NoLocal, locals |-> <<>>, blocks |-> NoChildren]

\* the rows of a database that a filter matches, in the remote's order
Matching(rows, order, filter) ==
    LET hit == SelectSeq(order, LAMBDA r : rows[r] # NoTime /\ Passes(filter, rows[r]))
    IN  [i \in 1..Len(hit) |-> Row(hit[i], rows[hit[i]])]

\* how many results the remote puts in one response
QueryPageLen == 2

\* the answer to databases.query({ ..., start_cursor: cursor }); cursor 0 is undefined
QueryResponse(matching, cursor) ==
    LET upto == Min(cursor + QueryPageLen, Len(matching))
    IN  [results |-> SubSeq(matching, cursor + 1, upto),
         has_more |-> upto < Len(matching),
         next_cursor |-> upto]

\* the while (true) loop of queryDatabaseIncremental and of fullIdsInDatabase:
\* request number failReq (0: none) is the one on which withRetry throws
RECURSIVE QueryLoop(_, _, _, _, _, _, _, _)
QueryLoop(rows, order, filter, cursor, all, sent, n, failReq) ==
    IF n + 1 = failReq
      THEN [ok |-> FALSE, all |-> all, sent |-> sent \cup {filter}, requests |-> n + 1]
      ELSE LET res == QueryResponse(Matching(rows, order, filter), cursor)
           IN  IF ~res.has_more
                 THEN [ok |-> TRUE, all |-> all \o res.results,
                       sent |-> sent \cup {filter}, requests |-> n + 1]
                 ELSE QueryLoop(rows, order, filter, res.next_cursor, all \o res.results,
                                sent \cup {filter}, n + 1, failReq)

\* queryDatabaseIncremental(database_id, sinceISO)
QueryDatabaseIncremental(rows, order, since, failReq) ==
    QueryLoop(rows, order, QueryFilter(since), 0, <<>>, {}, 0, failReq)

\* fullIdsInDatabase(database_id)
FullIdsInDatabase(rows, order, failReq) ==
    LET q == QueryLoop(rows, order, NoFilter, 0, <<>>, {}, 0, failReq)
    IN  [ok |-> q.ok, ids |-> {q.all[i].id : i \in 1..Len(q.all)}]

NoDbFile == [exists |-> FALSE, results |-> <<>>]

IdsOf(results) == {results[i].id : i \in 1..Len(results)}

\* byId.set(p.id, p) on an insertion-ordered Map kept as the sequence of its values
MapAppend(m, row) == Append(m, row)
MapSet(m, row) ==
    IF row.id \in IdsOf(m)
      THEN [i \in 1..Len(m) |-> IF m[i].id = row.id THEN row ELSE m[i]]
      ELSE Append(m, row)

\* if (cov) p.cover_local = await downloadFileCached(`page:${p.id}:cover`, cov, 'cover', state)
RowCoverLocal(row, env, s) ==
    IF row.cover # Null
      THEN CachedDownload(s, CoverKey(row.id), row.cover, "cover", env)
      ELSE [ret |-> NoLocal, s |-> s]

\* the for loop over prop.files from the i-th file on (i counts from 0)
RECURSIVE RowFileLocals(_, _, _, _, _)
RowFileLocal(row, i, locals, env, d) ==
    RowFileLocals(row, i + 1, Append(locals, d.ret), env, d.s)
RowFileLocals(row, i, locals, env, s) ==
    IF i >= Len(row.files)
      THEN [ret |-> locals, s |-> s]
      ELSE RowFileLocal(row, i, locals, env,
                        CachedDownload(s, PropKey(row.id, FilesProp, i), row.files[i + 1],
                                       "file", env))

\* the block tree of a row's detail page
RowTree(id) == (id :> << <<Block(id \o ".text", "paragraph", FALSE, Null)>> >>)

\* if (fetchBlocksForRows) { try { p.blocks = await listBlocks(p.id, state) } catch { warn } }
RowBlocksListed(s, t) ==
    [ret |-> IF t.ok THEN [present |-> TRUE, list |-> t.blocks] ELSE NoChildren, s |-> t.s]
RowBlocks(row, env, s) ==
    IF env.fetchBlocksForRows
      THEN RowBlocksListed(s, ListBlocks(RowTree(row.id), row.id, env, s))
      ELSE [ret |-> NoChildren, s |-> s]

\* one turn of the for (const p of changedRows) loop: the row as it is stored
RowWithBlocks(row, cov, fl, b) ==
    [row |-> [row EXCEPT !.cover_local = cov.ret, !.locals = fl.ret, !.blocks = b.ret],
     s |-> b.s]
RowWithFiles(row, env, cov, fl) == RowWithBlocks(row, cov, fl, RowBlocks(row, env, fl.s))
RowWithCover(row, env, cov) ==
    RowWithFiles(row, env, cov, RowFileLocals(row, 0, <<>>, env, cov.s))
ChangedRow(row, env, s) == RowWithCover(row, env, RowCoverLocal(row, env, s))

\* the for (const p of changedRows) loop from the i-th row on
RECURSIVE MergeRows(_, _, _, _, _, _)
MergeRow(m, items, changedRows, i, env, p) ==
    [MergeRows(MapSet(m, p.row),
               [r \in DOMAIN items \cup {p.row.id} |->
                  IF r = p.row.id THEN p.row.last_edited_time ELSE items[r]],
               changedRows, i + 1, env, p.s)
       EXCEPT !.fresh = <<p.row>> \o @]
MergeRows(m, items, changedRows, i, env, s) ==
    IF i > Len(changedRows)
      THEN [byId |-> m, dbItems |-> items, s |-> s, fresh |-> <<>>]
      ELSE MergeRow(m, items, changedRows, i, env, ChangedRow(changedRows[i], env, s))

\* which mode of syncDatabase reconciles deletions: if (fullMode)
ReconcilesAlways(full) == TRUE
Reconciles(full) == full

\* the rows that stay after the reconcile loop: byId.delete(id) for ids not in currentIds
ReconcileKeepsMissing(m, currentIds) == SelectSeq(m, LAMBDA x : x.id \notin currentIds)
Reconcile(m, currentIds) == SelectSeq(m, LAMBDA x : x.id \in currentIds)

\* syncDatabase(database_id, outName, state, options) as one call: the rows of
\* the remote, the stored snapshot, state.dbItems, the options, and what the
\* network does; failReq and failFull are the requests of the two query loops
\* on which withRetry throws (0: none).  results is what the call writes
SyncDatabaseWrites(full, m, e) ==
    [ok |-> e.ok, results |-> IF Reconciles(full) THEN Reconcile(m.byId, e.ids) ELSE m.byId,
     s |-> m.s]
SyncDatabaseMerged(rows, full, failFull, m) ==
    SyncDatabaseWrites(full, m,
                       IF Reconciles(full)
                         THEN FullIdsInDatabase(rows, RowOrder(rows), failFull)
                         ELSE [ok |-> TRUE, ids |-> {}])
SyncDatabaseQueried(rows, stored, items, full, env, s, failFull, q) ==
    IF ~q.ok
      THEN [ok |-> FALSE, results |-> stored, s |-> s]
      ELSE SyncDatabaseMerged(rows, full, failFull,
                              MergeRows(stored, items, q.all, 1, env, s))
SyncDatabase(rows, stored, items, full, since, env, s, failReq, failFull) ==
    SyncDatabaseQueried(rows, stored, items, full, env, s, failFull,
                        QueryDatabaseIncremental(rows, RowOrder(rows),
                                                 IF full THEN NoTime ELSE since, failReq))

\* ---- what the last sync unit did ----
NoLast == [unit |-> Null, step |-> Null, forced |-> FALSE, threw |-> FALSE,
           retrieved |-> FALSE,
           changed |-> FALSE, cover |-> FALSE, fname |-> <<>>, stateSet |-> FALSE,
           returned |-> NoPayload, lists |-> 0, listThrew |-> FALSE, fetches |-> 0,
           writes |-> 0,
           wrote |-> FALSE, before |-> {}, changedIds |-> {}, fresh |-> <<>>, fullIds |-> {},
           sent |-> {}]

(***************************************************************************)
(* normalizeId: a text is a sequence of one-character strings              *)
(***************************************************************************)
VARIABLES
    input,      \* the argument of normalizeId: absent (null, undefined) or a text
    normalized  \* what the last normalizeId(input) call returned

idVars == <<input, normalized>>

IdLen == 32

HexDigits == {"0", "1", "2", "3", "4", "5", "6", "7", "8", "9",
              "a", "b", "c", "d", "e", "f", "A", "B", "C", "D", "E", "F"}
\* [0-9a-fA-F]
IsHex(c) == c \in HexDigits

UpperCase == <<"A", "B", "C", "D", "E", "F", "G", "H", "I", "J", "K", "L", "M",
               "N", "O", "P", "Q", "R", "S", "T", "U", "V", "W", "X", "Y", "Z">>
LowerCase == <<"a", "b", "c", "d", "e", "f", "g", "h", "i", "j", "k", "l", "m",
               "n", "o", "p", "q", "r", "s", "t", "u", "v", "w", "x", "y", "z">>
\* toLowerCase, one character at a time
ToLowerCase(c) ==
    IF \E i \in DOMAIN UpperCase : UpperCase[i] = c
      THEN LowerCase[CHOOSE i \in DOMAIN UpperCase : UpperCase[i] = c]
      ELSE c
ToLowerCaseAll(t) == [i \in 1..Len(t) |-> ToLowerCase(t[i])]

\* String.prototype.trim()
WhiteSpace == {" ", "\t", "\n"}
RECURSIVE TrimStart(_), TrimEnd(_)
TrimStart(t) == IF t # <<>> /\ Head(t) \in WhiteSpace THEN TrimStart(Tail(t)) ELSE t
TrimEnd(t) ==
    IF t # <<>> /\ t[Len(t)] \in WhiteSpace THEN TrimEnd(SubSeq(t, 1, Len(t) - 1)) ELSE t
Trim(t) == TrimEnd(TrimStart(t))

\* s.match(/[0-9a-fA-F]{32}/): where the leftmost match starts, 0 when there is
\* none; the scan tries each start from the left
RECURSIVE MatchFrom(_, _)
MatchLast(t, i) ==
    IF \E k \in i..(Len(t) - IdLen + 1) : \A j \in k..(k + IdLen - 1) : IsHex(t[j])
      THEN CHOOSE k \in i..(Len(t) - IdLen + 1) :
             /\ \A j \in k..(k + IdLen - 1) : IsHex(t[j])
             /\ \A l \in (k + 1)..(Len(t) - IdLen + 1) :
                  \E j \in l..(l + IdLen - 1) : ~IsHex(t[j])
      ELSE 0
MatchFrom(t, i) ==
    IF i + IdLen - 1 > Len(t) THEN 0
    ELSE IF \A j \in i..(i + IdLen - 1) : IsHex(t[j]) THEN i
    ELSE MatchFrom(t, i + 1)

\* s.replace(/-/g, '')
WithoutHyphens(t) == SelectSeq(t, LAMBDA c : c # "-")

NoId == [null |-> TRUE, id |-> <<>>]
NoInput == [absent |-> TRUE, text |-> <<>>]

\* normalizeId(input)
NormalizeId(in) ==
    IF in.absent \/ in.text = <<>> THEN NoId
    ELSE LET s == Trim(in.text)
             m == MatchFrom(s, 1)
             raw == IF m # 0 THEN SubSeq(s, m, m + IdLen - 1) ELSE WithoutHyphens(s)
         IN  IF Len(raw) = IdLen THEN [null |-> FALSE, id |-> ToLowerCaseAll(raw)] ELSE NoId

\* ---- the texts normalizeId is given ----

\* n characters that go round the pattern
Run(pattern, n) == [i \in 1..n |-> pattern[((i - 1) % Len(pattern)) + 1]]

RECURSIVE Hyphenate(_, _, _)
\* the text with a hyphen after each position of D (before the text for 0)
Hyphenate(t, D, i) ==
    IF i > Len(t) THEN <<>>
    ELSE (IF i = 1 /\ 0 \in D THEN <<"-">> ELSE <<>>)
         \o <<t[i]>> \o (IF i \in D THEN <<"-">> ELSE <<>>) \o Hyphenate(t, D, i + 1)

HexPatterns == {<<"1", "a", "9", "f">>, <<"A", "0", "F", "b", "7">>}
OtherPatterns == {<<"g">>, <<"Z", "1", "x">>}
RunLengths == {IdLen - 1, IdLen, IdLen + 1}
\* the 8-4-4-4-12 grouping of a UUID, a single hyphen in the middle, hyphens in
\* front, and none
Groupings == {{8, 12, 16, 20}, {16}, {0, 1}, {}}

NotAnId == <<"n", "o", "t", "-", "a", "n", "-", "i", "d">>
PageUrl == <<"h", "t", "t", "p", "s", ":", "/", "/", "n", "o", "t", "i", "o", "n", ".",
             "s", "o", "/", "P", "a", "g", "e", "-">>
Bodies ==
    {Hyphenate(Run(p, n), D, 1) :
        p \in HexPatterns \cup OtherPatterns, n \in RunLengths, D \in Groupings}
    \cup {NotAnId}
Prefixes == {<<>>, <<" ">>, PageUrl, <<"c", "D">>}
Suffixes == {<<>>, <<"\n">>, <<"?", "v", "=">> \o Run(<<"e", "2">>, IdLen), <<"5">>}

Inputs ==
    {NoInput}
    \cup {[absent |-> FALSE, text |-> pre \o body \o post] :
            pre \in Prefixes, body \in Bodies \cup {<<>>}, post \in Suffixes}

NotNormalized == [called |-> FALSE, null |-> TRUE, id |-> <<>>]

IdInit ==
    /\ input \in Inputs
    /\ normalized = NotNormalized

IdIdle ==
    /\ input = NoInput
    /\ normalized = NotNormalized

(***************************************************************************)
(* The token: the top level of the module, before main                     *)
(***************************************************************************)
VARIABLES
    tokens,     \* CFG.notion.notion_token and process.env.NOTION_TOKEN
    auth,       \* TOKEN, the auth of the client
    booted      \* "no" before the top level ran, then "client" or "exit1"

bootVars == <<tokens, auth, booted>>

\* v && String(v).trim()
TokenText(v) == IF v.absent \/ v.text = <<>> THEN <<>> ELSE Trim(v.text)

\* const TOKEN = (config && ...) || (env && ...) || ''
TokenEnvFirst(cfg, env) == IF TokenText(env) # <<>> THEN TokenText(env) ELSE TokenText(cfg)
Token(cfg, env) == IF TokenText(cfg) # <<>> THEN TokenText(cfg) ELSE TokenText(env)

\* the values a token setting can have
TokenInputs ==
    {NoInput}
    \cup {[absent |-> FALSE, text |-> t] :
            t \in {<<>>, <<" ">>, <<"\t", " ">>, <<"s", "1">>, <<" ", "s", "1", "\n">>,
                   <<"s", "2">>, <<"s", " ", "2">>}}

BootInit ==
    /\ tokens \in [cfg : TokenInputs, env : TokenInputs]
    /\ auth = <<>>
    /\ booted = "no"

BootIdle ==
    /\ tokens = [cfg |-> [absent |-> FALSE, text |-> <<"s", "1">>], env |-> NoInput]
    /\ auth = <<"s", "1">>
    /\ booted = "client"

(***************************************************************************)
(* The order of the run's remote calls, downloads and snapshot writes      *)
(***************************************************************************)
VARIABLES
    queue,      \* what the run has still to do, in the order of its code
    flight      \* the calls made whose promise has not settled

flightVars == <<queue, flight>>

Op(unit, row, kind, owner, part) ==
    [unit |-> unit, row |-> row, kind |-> kind, target |-> [owner |-> owner, part |-> part]]

\* every call site of the script awaits its promise
AwaitsAllButDownloads(op) == op.kind # "download"
Awaited(op) == TRUE

\* the continuation of the run goes on once the awaited promises settled
Resumes(f) == \A o \in f : ~Awaited(o)

\* listBlocks(owner): the listing, then block by block the children and the image
ListOps(u, r, owner, tree) ==
    <<Op(u, r, "list", owner, "children")>>
    \o (IF tree >= 2
          THEN <<Op(u, r, "list", owner, "b1.children"),
                 Op(u, r, "download", owner, "b1.c1:image")>>
          ELSE <<>>)
    \o (IF tree >= 1 THEN <<Op(u, r, "download", owner, "b2:image")>> ELSE <<>>)

\* fetchPageIfChanged: retrieve, and for a changed page the blocks, the cover, the file
PageOps(p, sh) ==
    <<Op(p, 0, "retrieve", p, "page")>>
    \o (IF sh.changed
          THEN ListOps(p, 0, p, sh.tree)
               \o (IF sh.cover THEN <<Op(p, 0, "download", p, "cover")>> ELSE <<>>)
               \o <<Op(p, 0, "write", p, "snapshot")>>
          ELSE <<>>)

RowIds == [members |-> <<"A", "B">>, blog |-> <<"D", "E">>]

\* one row of syncDatabase: the cover, the file entries, the blocks
RowOps(d, r, sh) ==
    (IF sh.cover THEN <<Op(d, r, "download", RowIds[d][r], "cover")>> ELSE <<>>)
    \o (IF sh.files >= 1 THEN <<Op(d, r, "download", RowIds[d][r], "prop:files:0")>> ELSE <<>>)
    \o (IF sh.files >= 2 THEN <<Op(d, r, "download", RowIds[d][r], "prop:files:1")>> ELSE <<>>)
    \o (IF sh.withBlocks THEN ListOps(d, r, RowIds[d][r], sh.tree) ELSE <<>>)

\* syncDatabase: the query, the rows, the reconciliation, the file
DbOps(d, sh) ==
    <<Op(d, 0, "query", d, "rows")>>
    \o (IF sh.rows >= 1 THEN RowOps(d, 1, sh) ELSE <<>>)
    \o (IF sh.rows >= 2 THEN RowOps(d, 2, sh) ELSE <<>>)
    \o (IF sh.full THEN <<Op(d, 3, "query", d, "ids")>> ELSE <<>>)
    \o <<Op(d, 3, "write", d, "snapshot")>>

\* main: the pages, the collections, the state file
Plan(cfg, sh) ==
    (IF "home" \in cfg THEN PageOps("home", sh) ELSE <<>>)
    \o (IF "intro" \in cfg THEN PageOps("intro", sh) ELSE <<>>)
    \o (IF "culture" \in cfg THEN PageOps("culture", sh) ELSE <<>>)
    \o (IF "members" \in cfg THEN DbOps("members", sh) ELSE <<>>)
    \o (IF "blog" \in cfg THEN DbOps("blog", sh) ELSE <<>>)
    \o <<Op("save", 0, "write", "state", "snapshot")>>

\* what the remote side holds for every unit of the run
Shapes ==
    [changed : BOOLEAN, cover : BOOLEAN, tree : {0, 2}, rows : {0, 2}, files : {2},
     withBlocks : BOOLEAN, full : {TRUE}]

Configs == {{}, {"home", "intro"}, {"culture", "members"}, {"members", "blog"}, Slots}

FlightInit ==
    /\ queue \in {Plan(cfg, sh) : cfg \in Configs, sh \in Shapes}
    /\ flight = {}

FlightIdle ==
    /\ queue = <<>>
    /\ flight = {}

(***************************************************************************)
(* The asset keys of one row, as the strings the template literals build   *)
(***************************************************************************)
VARIABLES
    slots,      \* two binary slots of one row
    slotKeys,   \* their asset keys, once computed
    crossHit    \* the second slot's lookup found the first slot's record

keyVars == <<slots, slotKeys, crossHit>>

MaxIndex == 10
MaxNameLen == 2

Digit == <<"0", "1", "2", "3", "4", "5", "6", "7", "8", "9">>

\* `${i}` of a non-negative integer
RECURSIVE Decimal(_)
Decimal(n) == IF n < 10 THEN <<Digit[n + 1]>> ELSE Decimal(n \div 10) \o <<Digit[(n % 10) + 1]>>

\* `page:${p.id}:cover`
CoverKeyText(id) == <<"p", "a", "g", "e", ":">> \o id \o <<":", "c", "o", "v", "e", "r">>

\* `page:${p.id}:prop:${propName}:${i}`
PropKeyTextJoined(id, propName, i) ==
    <<"p", "a", "g", "e", ":">> \o id \o <<":", "p", "r", "o", "p", ":">> \o propName \o Decimal(i)
PropKeyText(id, propName, i) ==
    <<"p", "a", "g", "e", ":">> \o id \o <<":", "p", "r", "o", "p", ":">>
    \o propName \o <<":">> \o Decimal(i)

\* the key syncDatabase gives a slot of row id
SlotKey(id, slot) ==
    IF slot.kind = "cover" THEN CoverKeyText(id) ELSE PropKeyText(id, slot.name, slot.i)

\* property names: keys of p.properties
NameChars == {"a", ":", "1"}
RECURSIVE NamesOf(_)
NamesOf(n) == IF n = 0 THEN {<<>>} ELSE {<<>>} \cup {<<c>> \o t : c \in NameChars, t \in NamesOf(n - 1)}
PropNames ==
    NamesOf(MaxNameLen) \cup {<<"a", ":", "1">>, <<"1", ":", "1">>, <<"a", ":", "1", "0">>}

RowSlots ==
    {[kind |-> "cover", name |-> <<>>, i |-> 0]}
    \cup [kind : {"file"}, name : PropNames, i : 0..MaxIndex]

RowIdText == <<"r", "1">>
NoKeys == <<>>

KeysInit ==
    /\ slots \in RowSlots \X RowSlots
    /\ slotKeys = NoKeys
    /\ crossHit = FALSE

KeysIdle ==
    /\ slots = <<[kind |-> "cover", name |-> <<>>, i |-> 0], [kind |-> "cover", name |-> <<>>, i |-> 0]>>
    /\ slotKeys = NoKeys
    /\ crossHit = FALSE

\* ---- listBlocks on a remote tree of any shape ----

VARIABLES
    remote,     \* what blocks.children.list serves: node id -> the pages of its children
    listed      \* the last listBlocks("root", state) call: whether it returned, and what

blockVars == <<remote, listed>>

MaxPages == 2

\* the blocks the root and the node "a" can hold
RootBlocks == {Block("a", "paragraph", TRUE, Null),
               Block("b", "image", FALSE, "https://s3/a.png?sig=1"),
               Block("c", "paragraph", FALSE, Null)}
ChildBlocks == {Block("d", "file", FALSE, "https://s3/a.png?sig=1"),
                Block("e", "paragraph", TRUE, Null)}
GrandChildBlocks == {Block("f", "image", FALSE, "https://s3/a.png?sig=1")}

\* the orders in which the remote can hold some of the blocks of S
Orders(S) ==
    {q \in UNION {[1..n -> S] : n \in 0..Cardinality(S)} :
        \A i, j \in DOMAIN q : q[i] = q[j] => i = j}

\* the pages the remote serves for the children q when it ends a page after
\* each position of C
RECURSIVE PagesOf(_, _, _, _, _)
PagesOf(q, C, i, page, out) ==
    IF i > Len(q) THEN out
    ELSE IF i \in C \/ i = Len(q)
      THEN PagesOf(q, C, i + 1, <<>>, Append(out, Append(page, q[i])))
      ELSE PagesOf(q, C, i + 1, Append(page, q[i]), out)

\* the ways the remote can serve some of the blocks of S: one empty page when
\* there are none, else at most MaxPages pages
Levels(S) ==
    UNION {IF q = <<>> THEN {<< <<>> >>}
           ELSE {PagesOf(q, C, 1, <<>>, <<>>) :
                   C \in {c \in SUBSET (1..(Len(q) - 1)) : Cardinality(c) < MaxPages}} :
           q \in Orders(S)}

Holds(level, id) == \E k \in DOMAIN level : \E i \in DOMAIN level[k] : level[k][i].id = id

\* the trees under "a": its children, and under "e" the grandchildren
TreesOfA ==
    UNION {IF Holds(k, "e") THEN {("a" :> k) @@ ("e" :> g) : g \in Levels(GrandChildBlocks)}
                            ELSE {"a" :> k} :
           k \in Levels(ChildBlocks)}

Trees ==
    UNION {IF Holds(r, "a") THEN {("root" :> r) @@ t : t \in TreesOfA}
                            ELSE {"root" :> r} :
           r \in Levels(RootBlocks)}

\* the list requests a tree can be asked
Requests(tree) ==
    {<<id, 0>> : id \in DOMAIN tree}
    \cup UNION {{<<id, c>> : c \in 2..Len(tree[id])} : id \in DOMAIN tree}

NotListed == [called |-> FALSE, ok |-> FALSE, blocks |-> <<>>]

BlocksInit ==
    /\ remote \in Trees
    /\ listed = NotListed

BlocksIdle ==
    /\ remote = ("root" :> << <<>> >>)
    /\ listed = NotListed

(***************************************************************************)
(* The loops of a run: withRetry around each request, the pagination of    *)
(* each listing, the calls of main one after the other                     *)
(***************************************************************************)
VARIABLES
    pagesLeft,  \* the pages the listing in progress has still to serve: has_more
    ended       \* "no", then "saved" (saveState) or "failed" (main().catch)

liveVars == <<pagesLeft, ended>>

\* the calls made through withRetry, and those whose loop follows next_cursor
Wrapped(op) == op.kind \in {"retrieve", "list", "query"}
Paged(op) == op.kind \in {"list", "query"}

\* if (!res.has_more) break
HasMoreAlways(left) == TRUE
HasMore(left) == left > 0

\* the listings of a row's block tree, inside the try of syncDatabase
InRowBlocks(op, d, r) ==
    /\ op.unit = d
    /\ op.row = r
    /\ op.target.part \in {"children", "b1.children", "b1.c1:image", "b2:image"}

RECURSIVE AfterRowBlocks(_, _, _)
AfterRowBlocks(q, d, r) ==
    IF q # <<>> /\ InRowBlocks(Head(q), d, r) THEN AfterRowBlocks(Tail(q), d, r) ELSE q

\* the run comes to the first call of q
Begin(q) ==
    /\ queue' = q
    /\ rPc' = IF q # <<>> /\ Wrapped(Head(q)) THEN "try" ELSE "idle"
    /\ rN' = 0
    /\ rCalls' = 0
    /\ rWait' = 0
    /\ rSlept' = <<>>
    /\ rResult' = 0
    /\ rError' = 0
    /\ pagesLeft' \in IF q # <<>> /\ Paged(Head(q)) THEN 0..(MaxPages - 1) ELSE {0}
    /\ UNCHANGED <<build, rTries, flight>>

LiveInit ==
    /\ \E cfg \in Configs, sh \in Shapes :
         /\ queue = Plan(cfg, sh)
         /\ rPc = IF Wrapped(Head(queue)) THEN "try" ELSE "idle"
         /\ pagesLeft \in IF Paged(Head(queue)) THEN 0..(MaxPages - 1) ELSE {0}
    /\ flight = {}
    /\ build = "fetch-notion.mjs"
    /\ rTries = DefaultTries
    /\ rN = 0
    /\ rCalls = 0
    /\ rWait = 0
    /\ rSlept = <<>>
    /\ rResult = 0
    /\ rError = 0
    /\ ended = "no"

LiveIdle ==
    /\ pagesLeft = 0
    /\ ended = "no"

AssetInit ==
    /\ images = NoImages
    /\ files = {}
    /\ calls = 0
    /\ aCall = NoCall

AssetIdle ==
    /\ images = NoImages
    /\ files = {}
    /\ calls = 0
    /\ aCall = NoCall

RetryInit ==
    /\ build \in Builds
    /\ \E given \in BOOLEAN, arg \in 1..MaxTries : rTries = TriesOrDefault(given, arg)
    /\ rPc = "try"
    /\ rN = 0
    /\ rCalls = 0
    /\ rWait = 0
    /\ rSlept = <<>>
    /\ rResult = 0
    /\ rError = 0

RetryIdle ==
    /\ build = "fetch-notion.mjs"
    /\ rTries = DefaultTries
    /\ rPc = "idle"
    /\ rN = 0
    /\ rCalls = 0
    /\ rWait = 0
    /\ rSlept = <<>>
    /\ rResult = 0
    /\ rError = 0

\* return await fn(): the attempt succeeds
RetryCallOk ==
    /\ rPc = "try"
    /\ rCalls' = rCalls + 1
    /\ rResult' = rCalls + 1
    /\ rPc' = "returned"
    /\ UNCHANGED <<build, rTries, rN, rWait, rSlept, rError>>
    /\ UNCHANGED <<assetVars, runVars, blockVars, idVars, bootVars, flightVars, keyVars, liveVars>>

\* fn() throws: the catch block
RetryCallFail ==
    /\ rPc = "try"
    /\ rCalls' = rCalls + 1
    /\ rN' = rN + 1
    /\ rWait' = Wait(build, rN + 1)
    /\ IF Exhausted(rN + 1, rTries)
         THEN /\ rPc' = "thrown"
              /\ rError' = rCalls + 1
         ELSE /\ rPc' = "sleep"
              /\ rError' = rError
    /\ UNCHANGED <<build, rTries, rSlept, rResult>>
    /\ UNCHANGED <<assetVars, runVars, blockVars, idVars, bootVars, flightVars, keyVars, liveVars>>

\* await sleep(wait), then the loop goes round
RetrySleep ==
    /\ rPc = "sleep"
    /\ rSlept' = Append(rSlept, rWait)
    /\ rPc' = "try"
    /\ UNCHANGED <<build, rTries, rN, rCalls, rWait, rResult, rError>>
    /\ UNCHANGED <<assetVars, runVars, blockVars, idVars, bootVars, flightVars, keyVars, liveVars>>

RetryNext == RetryCallOk \/ RetryCallFail \/ RetrySleep

\* one call of downloadFileCached, from any call site, with any URL or none
Download ==
    /\ calls < MaxCalls
    /\ \E key \in Keys, url \in Urls \cup {Null, ""}, hint \in Hints :
         \E net \in IF NeedsFetch(images, files, key, url) THEN NetOutcomes ELSE {NoNet} :
           LET r == DownloadFileCached(images, files, key, url, hint, net, calls + 1)
           IN  /\ images' = r.images
               /\ files' = r.files
               /\ aCall' = [key |-> key, url |-> url, hint |-> hint,
                            net |-> net.kind, bytes |-> net.bytes,
                            stale |-> Stale(images, files, key), ret |-> r.ret,
                            fetched |-> r.fetched, caught |-> r.caught,
                            wrote |-> r.wrote, threw |-> r.threw]
    /\ calls' = calls + 1
    /\ UNCHANGED <<retryVars, runVars, blockVars, idVars, bootVars, flightVars, keyVars, liveVars>>

\* a file of images/ is removed from outside the program
RemoveFile ==
    /\ \E f \in files : files' = files \ {f}
    /\ UNCHANGED <<images, calls, aCall>>
    /\ UNCHANGED <<retryVars, runVars, blockVars, idVars, bootVars, flightVars, keyVars, liveVars>>

AssetNext == Download \/ RemoveFile

\* listBlocks("root", state) on the remote tree, the network answering served
\* and giving up on the request failAt
ListRoot ==
    /\ \E failAt \in Requests(remote) \cup {NoFail}, served \in [RunUrls -> RunOutcomes] :
         \E r \in {ListBlocks(remote, "root",
                              [failAt |-> failAt, served |-> served, now |-> now,
                               fetchBlocksForRows |-> FALSE],
                              Effects(images, files))} :
             /\ listed' = [called |-> TRUE, ok |-> r.ok, blocks |-> r.blocks]
             /\ images' = r.s.images
             /\ files' = r.s.files
    /\ UNCHANGED <<remote, calls, aCall>>
    /\ UNCHANGED <<retryVars, runVars, idVars, bootVars, flightVars, keyVars, liveVars>>

BlocksNext == ListRoot \/ RemoveFile

\* main: normalizeId(idsInput.<slot>)
Normalize ==
    /\ ~normalized.called
    /\ \E r \in {NormalizeId(input)} :
         normalized' = [called |-> TRUE, null |-> r.null, id |-> r.id]
    /\ UNCHANGED input
    /\ UNCHANGED <<retryVars, assetVars, runVars, blockVars, bootVars, flightVars, keyVars, liveVars>>

IdNext == Normalize

\* the top level of the module: if (!TOKEN) process.exit(1), else the client
Boot ==
    /\ booted = "no"
    /\ \E t \in {Token(tokens.cfg, tokens.env)} :
         /\ auth' = t
         /\ booted' = IF t = <<>> THEN "exit1" ELSE "client"
    /\ UNCHANGED tokens
    /\ UNCHANGED <<retryVars, assetVars, runVars, blockVars, idVars, flightVars, keyVars, liveVars>>

\* the run reaches its next await: the call is made
Issue ==
    /\ queue # <<>>
    /\ Head(queue).kind # "write"
    /\ Resumes(flight)
    /\ flight' = flight \cup {Head(queue)}
    /\ queue' = Tail(queue)
    /\ UNCHANGED <<retryVars, assetVars, runVars, blockVars, idVars, bootVars, keyVars, liveVars>>

\* a promise settles
Settle ==
    /\ \E o \in flight : flight' = flight \ {o}
    /\ UNCHANGED queue
    /\ UNCHANGED <<retryVars, assetVars, runVars, blockVars, idVars, bootVars, keyVars, liveVars>>

\* fs.writeFileSync of a snapshot: one synchronous step of the continuation
WriteSnapshot ==
    /\ queue # <<>>
    /\ Head(queue).kind = "write"
    /\ Resumes(flight)
    /\ queue' = Tail(queue)
    /\ UNCHANGED flight
    /\ UNCHANGED <<retryVars, assetVars, runVars, blockVars, idVars, bootVars, keyVars, liveVars>>

\* one row of syncDatabase: the first slot is downloaded and recorded under
\* its key, then the second slot is looked up under its own
ResolveSlots ==
    /\ slotKeys = NoKeys
    /\ \E k \in {<<SlotKey(RowIdText, slots[1]), SlotKey(RowIdText, slots[2])>>} :
         /\ slotKeys' = k
         /\ crossHit' = (k[2] \in {k[1]})
    /\ UNCHANGED slots
    /\ UNCHANGED <<retryVars, assetVars, runVars, blockVars, idVars, bootVars, flightVars, liveVars>>

\* a request of a listing returned and has_more is true: the next turn of
\* while (true), with the next cursor
LoopOn ==
    /\ ended = "no"
    /\ rPc = "returned"
    /\ Paged(Head(queue))
    /\ HasMore(pagesLeft)
    /\ pagesLeft' = IF pagesLeft > 0 THEN pagesLeft - 1 ELSE 0
    /\ rPc' = "try"
    /\ rN' = 0
    /\ rCalls' = 0
    /\ rWait' = 0
    /\ rSlept' = <<>>
    /\ rResult' = 0
    /\ rError' = 0
    /\ UNCHANGED <<build, rTries, flightVars, ended>>
    /\ UNCHANGED <<assetVars, runVars, blockVars, idVars, bootVars, keyVars>>

\* withRetry returned and no page is left to ask for: the run goes to its next call
StepOn ==
    /\ ended = "no"
    /\ rPc = "returned"
    /\ ~(Paged(Head(queue)) /\ HasMore(pagesLeft))
    /\ Begin(Tail(queue))
    /\ UNCHANGED ended
    /\ UNCHANGED <<assetVars, runVars, blockVars, idVars, bootVars, keyVars>>

\* downloadFileCached: it returns whether fetch answered or threw
DownloadStep ==
    /\ ended = "no"
    /\ rPc = "idle"
    /\ queue # <<>>
    /\ Head(queue).kind = "download"
    /\ Begin(Tail(queue))
    /\ UNCHANGED ended
    /\ UNCHANGED <<assetVars, runVars, blockVars, idVars, bootVars, keyVars>>

\* a snapshot is written; the last write is saveState
WriteStep ==
    /\ ended = "no"
    /\ rPc = "idle"
    /\ queue # <<>>
    /\ Head(queue).kind = "write"
    /\ Begin(Tail(queue))
    /\ ended' = IF Head(queue).unit = "save" THEN "saved" ELSE "no"
    /\ UNCHANGED <<assetVars, runVars, blockVars, idVars, bootVars, keyVars>>

\* withRetry threw outside the try of syncDatabase: main().catch, process.exit(1)
Propagate ==
    /\ ended = "no"
    /\ rPc = "thrown"
    /\ ~(Head(queue).unit \in DbSlots /\ InRowBlocks(Head(queue), Head(queue).unit, Head(queue).row))
    /\ ended' = "failed"
    /\ UNCHANGED <<retryVars, flightVars, pagesLeft>>
    /\ UNCHANGED <<assetVars, runVars, blockVars, idVars, bootVars, keyVars>>

\* withRetry threw in listBlocks(p.id, state) of a row: the catch warns and the
\* loop over the rows goes on
Swallow ==
    /\ ended = "no"
    /\ rPc = "thrown"
    /\ Head(queue).unit \in DbSlots
    /\ InRowBlocks(Head(queue), Head(queue).unit, Head(queue).row)
    /\ Begin(AfterRowBlocks(queue, Head(queue).unit, Head(queue).row))
    /\ UNCHANGED ended
    /\ UNCHANGED <<assetVars, runVars, blockVars, idVars, bootVars, keyVars>>

\* ---- the run ----

\* before the first run: nothing on disk, every upstream resource as created at
\* time 0; cfg is the configuration, rows the rows each database can hold
RunStartFrom(cfg, withBlocks, h, t, rows, file) ==
    /\ ids = cfg
    /\ fetchBlocksForRows = withBlocks
    /\ horizon = h
    /\ now = t
    /\ upPage = [p \in PageSlots |-> 0]
    /\ upRows = [d \in DbSlots |-> [r \in rows[d] |-> 0]]
    /\ pc = "off"
    /\ phase = "query"
    /\ fullMode = FALSE
    /\ sinceISO = NoTime
    /\ mem = FreshState
    /\ disk = file
    /\ pageFile = [p \in PageSlots |-> NoPayload]
    /\ dbFile = [d \in DbSlots |-> NoDbFile]
    /\ byId = <<>>
    /\ saves = 0
    /\ synced = {}
    /\ written = {}
    /\ unsaved = {}
    /\ outcome = "none"
    /\ last = NoLast

RunStart(cfg, withBlocks, h, t, rows) == RunStartFrom(cfg, withBlocks, h, t, rows, NoStateFile)

OneRowEach == [d \in DbSlots |-> IF d = "members" THEN {"A"} ELSE {"D"}]
ThreeRows == [d \in DbSlots |-> IF d = "members" THEN {"A", "B", "C"} ELSE {"D"}]

RunIdle == RunStart({}, FALSE, 0, 0, OneRowEach)

upstreamVars == <<ids, fetchBlocksForRows, horizon, now, upPage, upRows>>

\* an upstream step leaves the process and its files alone; last is kept only
\* for the sync unit in progress or just finished
Meanwhile ==
    /\ last' = IF phase = "write" THEN last ELSE NoLast
    /\ UNCHANGED <<ids, fetchBlocksForRows, horizon, pc, phase, fullMode, sinceISO, mem, disk,
                   pageFile, dbFile, byId, saves, synced, written, unsaved, outcome>>
    /\ UNCHANGED <<retryVars, assetVars, blockVars, idVars, bootVars, flightVars, keyVars, liveVars>>

\* time passes
Tick ==
    /\ now < horizon
    /\ now' = now + 1
    /\ UNCHANGED <<upPage, upRows>>
    /\ Meanwhile

\* a configured page is edited upstream
EditPage ==
    /\ \E p \in PageSlots \cap ids :
         /\ upPage[p] < now
         /\ upPage' = [upPage EXCEPT ![p] = now]
    /\ UNCHANGED <<now, upRows>>
    /\ Meanwhile

\* a row of a configured database is created, restored or edited upstream
EditRow ==
    /\ \E d \in DbSlots \cap ids : \E r \in DOMAIN upRows[d] :
         /\ upRows[d][r] < now
         /\ upRows' = [upRows EXCEPT ![d][r] = now]
    /\ UNCHANGED <<now, upPage>>
    /\ Meanwhile

\* a row of a configured database is deleted or archived upstream
DeleteRow ==
    /\ \E d \in DbSlots \cap ids : \E r \in DOMAIN upRows[d] :
         /\ upRows[d][r] # NoTime
         /\ upRows' = [upRows EXCEPT ![d][r] = NoTime]
    /\ UNCHANGED <<now, upPage>>
    /\ Meanwhile

\* if (ids.<slot>): the slot's identifier is given and normalizeId accepted it
GivenAlways(cfg, slot) == TRUE
Given(cfg, slot) == slot \in cfg

\* node fetch-notion.mjs: main up to the first sync unit
Start ==
    /\ booted = "client"
    /\ pc = "off"
    /\ \E forceFull \in BOOLEAN :
         LET l == LoadState(disk)
             full == FullMode(forceFull, l.state)
         IN  /\ mem' = l.state
             /\ images' = l.images
             /\ last' = [NoLast EXCEPT !.forced = forceFull]
             /\ fullMode' = full
             /\ sinceISO' = SinceISO(full, l.state)
    /\ pc' = Order[1]
    /\ phase' = "query"
    /\ byId' = <<>>
    /\ saves' = 0
    /\ synced' = {}
    /\ written' = {}
    /\ outcome' = "running"
    /\ UNCHANGED <<upstreamVars, disk, pageFile, dbFile, unsaved, files, calls, aCall>>
    /\ UNCHANGED <<retryVars, blockVars, idVars, bootVars, flightVars, keyVars, liveVars>>

\* main: a slot without an id is skipped with a warning
SkipMissing ==
    /\ pc \in Slots
    /\ ~Given(ids, pc)
    /\ pc' = After(pc)
    /\ UNCHANGED <<upstreamVars, phase, fullMode, sinceISO, mem, disk, pageFile, dbFile, byId,
                   saves, synced, written, unsaved, outcome, last>>
    /\ UNCHANGED <<retryVars, assetVars, blockVars, idVars, bootVars, flightVars, keyVars, liveVars>>

\* main().catch: the failure of a sync unit ends the process; what the unit had
\* written to images/ stays, the state object is gone
Fail(fs, m, imgs) ==
    /\ pc' = "off"
    /\ phase' = "query"
    /\ outcome' = "failed"
    /\ disk' = DiskAfterFailure(disk, m, imgs)
    /\ mem' = FreshState
    /\ images' = NoImages
    /\ files' = fs
    /\ byId' = <<>>
    /\ unsaved' = unsaved \cup written
    /\ fullMode' = FALSE
    /\ sinceISO' = NoTime
    /\ synced' = {}
    /\ written' = {}
    /\ UNCHANGED <<dbFile, saves>>

\* what the remote side is asked beyond pages.retrieve: nothing unless the
\* retrieve answered and the page is found changed
ReadsPage(metaOk, p) == metaOk /\ Changed(mem.pages[p], upPage[p])
PageCovers(metaOk, p) == IF ReadsPage(metaOk, p) THEN RunUrls \cup {Null} ELSE {Null}
PageFailures(metaOk, p) ==
    IF ReadsPage(metaOk, p) THEN ListRequests(p) \cup {NoFail, WriteFails} ELSE {NoFail}
PageServed(metaOk, p) ==
    IF ReadsPage(metaOk, p) THEN [RunUrls -> RunOutcomes]
                            ELSE {[u \in RunUrls |-> [kind |-> "ok", bytes |-> "bytesA"]]}

\* main: await fetchPageIfChanged(ids.<slot>, alias, state)
FetchPage ==
    /\ pc \in PageSlots
    /\ Given(ids, pc)
    /\ \E metaOk \in BOOLEAN :
       \E cov \in PageCovers(metaOk, pc), failAt \in PageFailures(metaOk, pc),
          served \in PageServed(metaOk, pc) :
         \E r \in {FetchPageIfChanged(pc, metaOk, upPage[pc], cov,
                                       [failAt |-> failAt, served |-> served, now |-> now,
                                        fetchBlocksForRows |-> fetchBlocksForRows],
                                       mem, images, files, pageFile)} :
             /\ last' = [NoLast EXCEPT !.unit = pc, !.step = "page", !.threw = r.threw,
                                       !.retrieved = metaOk,
                                       !.cover = (r.wrote /\ cov # Null),
                                       !.fname = IF r.wrote THEN Fname(Alias[pc], pc) ELSE <<>>,
                                       !.stateSet = (r.mem # mem),
                                       !.changed = r.changed, !.returned = r.ret,
                                       !.lists = r.s.lists, !.listThrew = r.s.listThrew,
                                       !.fetches = r.s.fetches,
                                       !.writes = r.s.writes, !.wrote = r.wrote]
             /\ IF r.threw
                  THEN /\ Fail(r.s.files, r.mem, r.s.images)
                       /\ pageFile' = r.pageFile
                  ELSE /\ mem' = r.mem
                       /\ images' = r.s.images
                       /\ files' = r.s.files
                       /\ pageFile' = r.pageFile
                       /\ written' = IF r.wrote THEN written \cup {pc} ELSE written
                       /\ synced' = synced \cup {pc}
                       /\ pc' = After(pc)
                       /\ UNCHANGED <<phase, fullMode, sinceISO, disk, dbFile, byId, saves,
                                      unsaved, outcome>>
    /\ UNCHANGED <<upstreamVars, calls, aCall>>
    /\ UNCHANGED <<retryVars, blockVars, idVars, bootVars, flightVars, keyVars, liveVars>>

\* const snapshot = fs.existsSync(outFile) ? JSON.parse(...) : { results: [] }
Stored(file) == IF file.exists THEN file.results ELSE <<>>

\* the listings of row blocks that can fail: none is made unless
\* fetchBlocksForRows is set
RowFailures(d) ==
    IF fetchBlocksForRows THEN RowListRequests(upRows[d]) \cup {NoFail} ELSE {NoFail}

\* syncDatabase up to the end of the changed-rows loop
QueryRows ==
    /\ pc \in DbSlots
    /\ Given(ids, pc)
    /\ phase = "query"
    /\ \E failReq \in 0..2, failAt \in RowFailures(pc), served \in [RunUrls -> RunOutcomes] :
         \E q \in {QueryDatabaseIncremental(upRows[pc], RowOrder(upRows[pc]),
                                            IF fullMode THEN NoTime ELSE sinceISO, failReq)} :
         \E m \in {MergeRows(Stored(dbFile[pc]), mem.dbItems, q.all, 1,
                             [failAt |-> failAt, served |-> served, now |-> now,
                              fetchBlocksForRows |-> fetchBlocksForRows],
                             Effects(images, files))} :
             /\ last' = [NoLast EXCEPT !.unit = pc, !.step = "query", !.threw = ~q.ok,
                                       !.before = IdsOf(Stored(dbFile[pc])),
                                       !.changedIds = IdsOf(q.all), !.sent = q.sent,
                                       !.fresh = IF q.ok THEN m.fresh ELSE <<>>,
                                       !.lists = m.s.lists, !.listThrew = m.s.listThrew,
                                       !.fetches = m.s.fetches,
                                       !.writes = m.s.writes]
             /\ IF ~q.ok
                  THEN /\ Fail(files, mem, images)
                       /\ UNCHANGED pageFile
                  ELSE /\ byId' = m.byId
                       /\ mem' = [mem EXCEPT !.dbItems = m.dbItems]
                       /\ images' = m.s.images
                       /\ files' = m.s.files
                       /\ phase' = "write"
                       /\ UNCHANGED <<pc, fullMode, sinceISO, disk, pageFile,
                                      dbFile, saves, synced, written, unsaved, outcome>>
    /\ UNCHANGED <<upstreamVars, calls, aCall>>
    /\ UNCHANGED <<retryVars, blockVars, idVars, bootVars, flightVars, keyVars, liveVars>>

\* syncDatabase from the reconcile to the write of db-<name>.json
WriteRows ==
    /\ pc \in DbSlots
    /\ Given(ids, pc)
    /\ phase = "write"
    /\ \E failReq \in 0..2 :
         LET e == IF Reconciles(fullMode)
                    THEN FullIdsInDatabase(upRows[pc], RowOrder(upRows[pc]), failReq)
                    ELSE [ok |-> TRUE, ids |-> {}]
             kept == IF Reconciles(fullMode) THEN Reconcile(byId, e.ids) ELSE byId
         IN  /\ last' = [last EXCEPT !.step = "write", !.threw = ~e.ok, !.fullIds = e.ids,
                                     !.wrote = e.ok]
             /\ IF ~e.ok
                  THEN /\ Fail(files, mem, images)
                       /\ UNCHANGED pageFile
                  ELSE /\ dbFile' = [dbFile EXCEPT ![pc] = [exists |-> TRUE, results |-> kept]]
                       /\ byId' = <<>>
                       /\ phase' = "query"
                       /\ synced' = synced \cup {pc}
                       /\ pc' = After(pc)
                       /\ UNCHANGED <<fullMode, sinceISO, mem, disk, pageFile, saves, written,
                                      unsaved, outcome, images, files>>
    /\ UNCHANGED <<upstreamVars, calls, aCall>>
    /\ UNCHANGED <<retryVars, blockVars, idVars, bootVars, flightVars, keyVars, liveVars>>

\* main: state.lastSyncISO = new Date().toISOString(); saveState(state)
Save ==
    /\ pc = "save"
    /\ disk' = StateJson([mem EXCEPT !.lastSyncISO = now], images)
    /\ saves' = saves + 1
    /\ outcome' = "saved"
    /\ unsaved' = unsaved \ written
    /\ pc' = "off"
    /\ mem' = FreshState
    /\ images' = NoImages
    /\ fullMode' = FALSE
    /\ sinceISO' = NoTime
    /\ synced' = {}
    /\ written' = {}
    /\ last' = NoLast
    /\ UNCHANGED <<upstreamVars, phase, pageFile, dbFile, byId, files, calls, aCall>>
    /\ UNCHANGED <<retryVars, blockVars, idVars, bootVars, flightVars, keyVars, liveVars>>

\* a caller runs syncDatabase(id, 'members', state, options) on the state object
\* it holds, in full mode or with a sinceISO
CallSyncDatabase ==
    /\ pc \notin DbSlots \cap ids
    /\ \E full \in BOOLEAN :
         /\ fullMode' = full
         /\ sinceISO' = IF full THEN NoTime ELSE now
    /\ pc' = "members"
    /\ phase' = "query"
    /\ last' = NoLast
    /\ UNCHANGED <<upstreamVars, mem, disk, pageFile, dbFile, byId, saves, synced, written,
                   unsaved, outcome>>
    /\ UNCHANGED <<retryVars, assetVars, blockVars, idVars, bootVars, flightVars, keyVars, liveVars>>

Next ==
    \/ Tick \/ EditPage \/ EditRow \/ DeleteRow
    \/ Start \/ SkipMissing \/ FetchPage \/ QueryRows \/ WriteRows \/ Save

NextDb == CallSyncDatabase \/ QueryRows \/ WriteRows \/ EditRow \/ DeleteRow

vars == <<retryVars, assetVars, runVars, blockVars, idVars, bootVars, flightVars, keyVars, liveVars>>

InitRetry == RetryInit /\ AssetIdle /\ RunIdle /\ BlocksIdle /\ IdIdle /\ BootIdle /\ FlightIdle /\ KeysIdle /\ LiveIdle

SpecRetry == InitRetry /\ [][RetryNext]_vars

InitBlocks == BlocksInit /\ AssetIdle /\ RetryIdle /\ RunIdle /\ IdIdle /\ BootIdle /\ FlightIdle /\ KeysIdle /\ LiveIdle

SpecBlocks == InitBlocks /\ [][BlocksNext]_vars

InitId == IdInit /\ AssetIdle /\ RetryIdle /\ RunIdle /\ BlocksIdle /\ BootIdle /\ FlightIdle /\ KeysIdle /\ LiveIdle

SpecId == InitId /\ [][IdNext]_vars

\* the module from its top level on, with no identifier configured
InitBoot == BootInit /\ AssetIdle /\ RetryIdle /\ RunIdle /\ BlocksIdle /\ IdIdle /\ FlightIdle /\ KeysIdle /\ LiveIdle

NextBoot == Boot \/ Start \/ SkipMissing \/ Save

SpecBoot == InitBoot /\ [][NextBoot]_vars

\* the calls of one run, in the order the script makes them
InitFlight == FlightInit /\ AssetIdle /\ RetryIdle /\ RunIdle /\ BlocksIdle /\ IdIdle /\ BootIdle /\ KeysIdle /\ LiveIdle

NextFlight == Issue \/ Settle \/ WriteSnapshot

SpecFlight == InitFlight /\ [][NextFlight]_vars

\* the keys of any two slots of one row
InitKeys == KeysInit /\ AssetIdle /\ RetryIdle /\ RunIdle /\ BlocksIdle /\ IdIdle /\ BootIdle /\ FlightIdle /\ LiveIdle

SpecKeys == InitKeys /\ [][ResolveSlots]_vars

\* the loops of one run, every request failing or answering as it may
InitLive == LiveInit /\ AssetIdle /\ RunIdle /\ BlocksIdle /\ IdIdle /\ BootIdle /\ KeysIdle

NextLive ==
    \/ RetryCallOk \/ RetryCallFail \/ RetrySleep
    \/ LoopOn \/ StepOn \/ DownloadStep \/ WriteStep \/ Propagate \/ Swallow

\* every promise settles and every continuation runs
SpecLive == InitLive /\ [][NextLive]_vars /\ WF_vars(NextLive)

\* runs of one collection that can last longer than the margin
InitLong ==
    /\ RunStart({"members"}, FALSE, MarginMinutes + 2, 0, OneRowEach)
    /\ AssetIdle
    /\ RetryIdle
    /\ BlocksIdle
    /\ IdIdle
    /\ BootIdle
    /\ FlightIdle
    /\ KeysIdle /\ LiveIdle

NextRows == Tick \/ EditRow \/ Start \/ SkipMissing \/ QueryRows \/ WriteRows \/ Save

SpecLong == InitLong /\ [][NextRows]_vars

InitAsset == AssetInit /\ RetryIdle /\ RunIdle /\ BlocksIdle /\ IdIdle /\ BootIdle /\ FlightIdle /\ KeysIdle /\ LiveIdle

SpecAsset == InitAsset /\ [][AssetNext]_vars

\* runs with at most one slot configured
InitSingle ==
    /\ \E cfg \in {c \in SUBSET Slots : Cardinality(c) <= 1} :
         \E withBlocks \in IF cfg \cap DbSlots = {} THEN {FALSE} ELSE BOOLEAN :
           RunStart(cfg, withBlocks, MaxTime, 0, OneRowEach)
    /\ AssetIdle
    /\ RetryIdle
    /\ BlocksIdle
    /\ IdIdle
    /\ BootIdle
    /\ FlightIdle
    /\ KeysIdle /\ LiveIdle

SpecSingle == InitSingle /\ [][Next]_vars

\* runs of one page that find a state file of any content
InitLoad ==
    /\ \E file \in StateFiles :
         RunStartFrom({"home"}, FALSE, MaxTimeOfTwo, 0, OneRowEach, file)
    /\ AssetIdle
    /\ RetryIdle
    /\ BlocksIdle
    /\ IdIdle
    /\ BootIdle
    /\ FlightIdle
    /\ KeysIdle /\ LiveIdle

\* the steps of a run whose configuration names pages only
NextPages == Tick \/ EditPage \/ Start \/ SkipMissing \/ FetchPage \/ Save

SpecLoad == InitLoad /\ [][NextPages]_vars

\* the configurations of two slots that are followed: a page before a page and
\* a page before a database
TwoSlots == {{"home", "intro"}, {"culture", "blog"}}

\* runs with two slots configured
Init ==
    /\ \E cfg \in TwoSlots :
         RunStart(cfg, FALSE, MaxTimeOfTwo, 0, OneRowEach)
    /\ AssetIdle
    /\ RetryIdle
    /\ BlocksIdle
    /\ IdIdle
    /\ BootIdle
    /\ FlightIdle
    /\ KeysIdle /\ LiveIdle

Spec == Init /\ [][Next]_vars

\* syncDatabase called over and over on a database of three rows
InitDb ==
    /\ RunStart({"members"}, FALSE, 1, 1, ThreeRows)
    /\ AssetIdle
    /\ RetryIdle
    /\ BlocksIdle
    /\ IdIdle
    /\ BootIdle
    /\ FlightIdle
    /\ KeysIdle /\ LiveIdle

SpecDb == InitDb /\ [][NextDb]_vars

(***************************************************************************)
(* Properties                                                              *)
(***************************************************************************)

\* C1: URL-rotation cache stability.  A call with a non-empty URL for a key
\* whose record exists and whose recorded file is on disk returns the recorded
\* path, fetches nothing, writes nothing and leaves state.images (the record
\* with it) and images/ as they were, whatever the URL.
UrlRotationCacheStable ==
    [][(/\ calls' = calls + 1
        /\ aCall'.url # Null
        /\ Rec(images, aCall'.key).local # NoLocal
        /\ Rec(images, aCall'.key).local.name \in FileNames(files))
       => (/\ aCall'.ret = Rec(images, aCall'.key).local
           /\ ~aCall'.fetched
           /\ ~aCall'.wrote
           /\ files' = files
           /\ images' = images)]_vars

\* a call that was answered from the cache although its URL differs from the
\* record's last_url
UrlRotationWitness ==
    /\ aCall.url # Null
    /\ Rec(images, aCall.key).local # NoLocal
    /\ aCall.url # Rec(images, aCall.key).last_url
    /\ ~aCall.fetched
    /\ aCall.ret = Rec(images, aCall.key).local

\* the call just made downloaded the bytes that another key's record, whose
\* file is on disk, already holds
SameBytesUnderOtherKey(k) ==
    /\ calls' = calls + 1
    /\ aCall'.fetched
    /\ ~aCall'.caught
    /\ aCall'.bytes # Null
    /\ k # aCall'.key
    /\ Rec(images, k).local # NoLocal
    /\ Rec(images, k).hash = HashField(aCall'.bytes)
    /\ Rec(images, k).local.name \in FileNames(files)

\* C7 as stated: downloading the same bytes under two different keys gives two
\* records whose names share the content-hash segment, and the second download
\* writes no file.
ContentDedupAnyName ==
    [][\A k \in Keys : SameBytesUnderOtherKey(k) =>
          (/\ Rec(images', aCall'.key).local # NoLocal
           /\ Rec(images', k).local # NoLocal
           /\ Rec(images', aCall'.key).local.name.hash12 = Rec(images', k).local.name.hash12
           /\ ~aCall'.wrote)]_vars

\* C7 amended: the two records always share the content-hash segment; the
\* second download writes no file when it is made with the same hint and a
\* URL of the same inferred extension as the first.
ContentDedupSameName ==
    [][\A k \in Keys : SameBytesUnderOtherKey(k) =>
          (/\ Rec(images', aCall'.key).local # NoLocal
           /\ Rec(images', k).local # NoLocal
           /\ Rec(images', aCall'.key).local.name.hash12 = Rec(images', k).local.name.hash12
           /\ (/\ aCall'.hint = Rec(images, k).local.name.hint
               /\ Rec(images', aCall'.key).local.name.ext = Rec(images, k).local.name.ext)
              => ~aCall'.wrote)]_vars

\* two keys hold the same bytes under one file name, and the later download
\* fetched but did not write
ContentDedupWitness ==
    /\ aCall.fetched
    /\ aCall.bytes # Null
    /\ ~aCall.wrote
    /\ \E k \in Keys \ {aCall.key} :
         /\ Rec(images, k).hash = Rec(images, aCall.key).hash
         /\ Rec(images, k).local = Rec(images, aCall.key).local
         /\ Rec(images, k).updated < Rec(images, aCall.key).updated

\* C9: retry attempt cap.  fn is invoked at most tries times (5 when tries is
\* left out); when every attempt fails, the failure thrown is that of attempt
\* number tries, with no attempt after it; when attempt k succeeds its result
\* is returned and fn is not invoked again.
RetryAttemptCap ==
    /\ rCalls <= rTries
    /\ rPc = "thrown" => (rCalls = rTries /\ rN = rTries /\ rError = rTries /\ rResult = 0)
    /\ rPc = "returned" => (rResult = rCalls /\ rError = 0 /\ rN = rCalls - 1)
    /\ rPc \in {"try", "sleep"} => (rResult = 0 /\ rError = 0 /\ rCalls = rN)

\* the fifth failure of a call with the default five tries has propagated
RetryAttemptCapWitness ==
    /\ rPc = "thrown"
    /\ rTries = 5
    /\ rCalls = 5
    /\ rError = 5

\* C10 as stated: with base 250 and cap 2000 the delays computed after
\* failures 1..5 are 250, 500, 1000, 2000, 2000 and none exceeds 2000.
RetryDelaysCap2000 ==
    rN >= 1 =>
        /\ rWait = (CASE rN = 1 -> 250 [] rN = 2 -> 500 [] rN = 3 -> 1000 [] OTHER -> 2000)
        /\ rWait <= 2000

\* C10 amended: the delay after the n-th failure is min(cap, 250 * 2^(n-1))
\* with the cap of the running copy: 2500 in fetch-notion.mjs, 2000 in the
\* older copy; so 250, 500, 1000, 2000, then the cap, and never above 2500.
RetryDelaysCapOfBuild ==
    /\ rN >= 1 =>
          /\ rWait = (CASE rN = 1 -> 250 [] rN = 2 -> 500 [] rN = 3 -> 1000 [] rN = 4 -> 2000
                        [] OTHER -> IF build = "fetch-notion.mjs" THEN 2500 ELSE 2000)
          /\ rWait <= 2500
    /\ \A i \in 1..Len(rSlept) :
          rSlept[i] = (CASE i = 1 -> 250 [] i = 2 -> 500 [] i = 3 -> 1000 [] i = 4 -> 2000
                        [] OTHER -> IF build = "fetch-notion.mjs" THEN 2500 ELSE 2000)

\* fetch-notion.mjs is about to sleep the delay of the fifth failure
RetryDelaysWitness ==
    /\ build = "fetch-notion.mjs"
    /\ rPc = "sleep"
    /\ rN = 5
    /\ rWait = 2500

\* a step in which syncDatabase writes db-<name>.json and returns
WroteRows == phase = "write" /\ phase' = "query" /\ pc' # "off"

\* C2: in incremental mode (fullMode false) every row id that was in the stored
\* snapshot when syncDatabase read it is still in the snapshot it writes,
\* whatever rows the changed-rows query returned
IncrementalNeverRemoves ==
    [][WroteRows /\ ~fullMode => last.before \subseteq IdsOf(dbFile'[pc].results)]_vars

\* an incremental call has written a snapshot that keeps a stored row which the
\* changed-rows query did not return and which is gone upstream
IncrementalNeverRemovesWitness ==
    /\ last.step = "write"
    /\ last.wrote
    /\ ~fullMode
    /\ \E r \in last.before :
         /\ r \notin last.changedIds
         /\ upRows[last.unit][r] = NoTime
         /\ r \in IdsOf(dbFile[last.unit].results)

\* C3: in full mode the row ids of the snapshot syncDatabase writes are exactly
\* (stored ids \cup changed-row ids) \cap the ids fullIdsInDatabase returned
FullModeReconciles ==
    [][WroteRows /\ fullMode =>
         IdsOf(dbFile'[pc].results) = (last.before \cup last.changedIds) \cap last'.fullIds]_vars

\* a full-mode call found {A, B, C} stored, enumerated {A, C} and wrote {A, C}
FullModeReconcilesWitness ==
    /\ last.step = "write"
    /\ last.wrote
    /\ fullMode
    /\ last.before = {"A", "B", "C"}
    /\ last.fullIds = {"A", "C"}
    /\ IdsOf(dbFile[last.unit].results) = {"A", "C"}

\* a step in which main runs fetchPageIfChanged for the slot it is at
FetchedPage == pc \in PageSlots /\ last'.unit = pc /\ last'.step = "page"

\* a step in which a sync unit throws and main().catch ends the process
Failed == pc # "off" /\ pc' = "off" /\ outcome' = "failed"

\* C4: a run that fails after it wrote page snapshots leaves the state file as
\* it was, and the next fetchPageIfChanged for such a page does not skip it:
\* it classifies the page as changed (or throws on pages.retrieve)
CrashResumable ==
    [][/\ Failed => disk' = disk
       /\ FetchedPage /\ pc \in unsaved => last'.changed \/ last'.threw]_vars

\* after a successful run and a failed run that had written a page, a later
\* run has found that page changed and has written it again
CrashResumableWitness ==
    /\ last.step = "page"
    /\ last.unit \in unsaved
    /\ last.changed
    /\ last.wrote
    /\ disk.exists
    /\ disk.pages[last.unit] # NoPage

\* C5: a run calls saveState at most once, and only when the sync of every
\* configured slot has returned; a run in which a sync throws never calls it
\* and leaves the state file as it was
SavedOncePerSuccessfulRun ==
    [][/\ saves' <= 1
       /\ disk' # disk \/ saves' > saves => pc = "save" /\ synced = ids /\ saves = 0
       /\ Failed => saves = 0 /\ disk' = disk]_vars

\* a run failed after some of its syncs had returned, a state file of an
\* earlier run being there
SavedOncePerSuccessfulRunWitness ==
    /\ outcome = "failed"
    /\ disk.exists
    /\ unsaved # {}
    /\ saves = 0

\* C6: fetchPageIfChanged for a page that has a stored PageState and whose
\* remote last_edited_time is not greater than the stored one returns null,
\* lists no blocks, downloads and writes nothing, and leaves state.pages and
\* state.images as they are; and a sync that wrote a page stores the stamp it
\* read, so that the next call with nothing changed upstream is such a call
UnchangedSkipIsNoOp ==
    [][/\ /\ FetchedPage
          /\ ~last'.threw
          /\ mem.pages[pc] # NoPage
          /\ ~(upPage[pc] > mem.pages[pc].last_edited_time)
          => /\ last'.returned = NoPayload
             /\ last'.lists = 0 /\ last'.fetches = 0 /\ last'.writes = 0
             /\ ~last'.wrote
             /\ mem' = mem /\ images' = images
             /\ pageFile' = pageFile /\ files' = files
       /\ FetchedPage /\ last'.wrote
          => mem'.pages[pc] # NoPage /\ mem'.pages[pc].last_edited_time = upPage[pc]]_vars

\* a page synced by an earlier run was fetched again with the same stamp
\* upstream, and skipped
UnchangedSkipWitness ==
    /\ last.step = "page"
    /\ ~last.threw
    /\ ~last.changed
    /\ pageFile[last.unit].exists
    /\ mem.pages[last.unit].last_edited_time = upPage[last.unit]

\* a step in which syncDatabase runs its changed-rows query (and merges the rows)
QueriedRows == pc \in DbSlots /\ phase = "query" /\ last'.unit = pc /\ last'.step = "query"

\* C8: in an incremental run with stored watermark T every changed-rows query
\* carries the filter last_edited_time on_or_after T - 2 minutes, and every row
\* edited at T - 2 or later is in the changed set
IncrementalFilterInclusive ==
    [][QueriedRows /\ ~fullMode =>
         /\ last'.sent = {[timestamp |-> "last_edited_time", op |-> "on_or_after",
                           value |-> disk.lastSyncISO - 2]}
         /\ ~last'.threw =>
              \A r \in DOMAIN upRows[pc] :
                 upRows[pc][r] # NoTime /\ upRows[pc][r] >= disk.lastSyncISO - 2
                   => r \in last'.changedIds]_vars

\* an incremental query has returned a row edited at exactly T - 2
IncrementalFilterWitness ==
    /\ last.step = "query"
    /\ ~last.threw
    /\ ~fullMode
    /\ disk.exists
    /\ \E r \in last.changedIds : upRows[last.unit][r] = disk.lastSyncISO - 2

\* the call just made got as far as the try block and something in it failed:
\* a non-2xx status, a throw of fetch or of the body read, or a throw of the write
DownloadFailed ==
    /\ calls' = calls + 1
    /\ \/ aCall'.net \in {"status", "throw", "body"}
       \/ aCall'.net = "write" /\ aCall'.caught

\* C11: a failure inside the download (non-2xx status, a throw of fetch, of the
\* body read or of the file write) never leaves downloadFileCached as a throw:
\* the call returns the path the key's record held before the call, null when
\* there was no record, and state.images is as it was.
DownloadFailureContained ==
    [][DownloadFailed
       => (/\ ~aCall'.threw
           /\ aCall'.ret = Rec(images, aCall'.key).local
           /\ images' = images)]_vars

\* a failed download of a key whose record names a file that is gone: the call
\* returned the recorded path
DownloadFailureWitness ==
    /\ aCall.caught
    /\ aCall.net \in {"status", "throw", "body", "write"}
    /\ aCall.ret # NoLocal
    /\ aCall.ret = Rec(images, aCall.key).local
    /\ aCall.ret.name \notin FileNames(files)

\* C12: a call of downloadFileCached without a source URL (null, undefined or
\* the empty string) returns the path the key's record holds, null when there is
\* no record, and does nothing else: no fetch, no file write, no throw, and
\* state.images and images/ are as they were.
AbsentUrlIsLookup ==
    [][(calls' = calls + 1 /\ aCall'.url \in {Null, ""})
       => (/\ aCall'.ret = Rec(images, aCall'.key).local
           /\ ~aCall'.fetched
           /\ ~aCall'.wrote
           /\ ~aCall'.threw
           /\ images' = images
           /\ files' = files)]_vars

\* a call with the empty URL for a key whose recorded file is gone: the recorded
\* path came back all the same
AbsentUrlWitness ==
    /\ aCall.url = ""
    /\ aCall.net = "none"
    /\ aCall.ret # NoLocal
    /\ aCall.ret = Rec(images, aCall.key).local
    /\ aCall.ret.name \notin FileNames(files)

\* C13: a call with a source URL for a key whose record names a file that is no
\* longer on disk fetches the URL again; when that download succeeds, the key's
\* record is the one this call stored, the call returns its path, and the file
\* the record names is on disk when the call returns.
StaleRecordRefetched ==
    [][(/\ calls' = calls + 1
        /\ aCall'.url \notin {Null, ""}
        /\ Rec(images, aCall'.key).local # NoLocal
        /\ Rec(images, aCall'.key).local.name \notin FileNames(files))
       => (/\ aCall'.fetched
           /\ aCall'.net = "ok"
                => (/\ Rec(images', aCall'.key).updated = calls'
                    /\ Rec(images', aCall'.key).last_url = aCall'.url
                    /\ Rec(images', aCall'.key).hash = HashField(aCall'.bytes)
                    /\ aCall'.ret = Rec(images', aCall'.key).local
                    /\ Rec(images', aCall'.key).local.name \in FileNames(files')))]_vars

\* a stale record was refetched and the URL served other bytes than before: the
\* record now names the new file, which is on disk
StaleRecordWitness ==
    /\ aCall.stale
    /\ aCall.net = "ok"
    /\ aCall.bytes = "bytesB"
    /\ aCall.wrote
    /\ Rec(images, aCall.key).updated = calls
    /\ Rec(images, aCall.key).local.name \in FileNames(files)
    /\ Rec(images, aCall.key).local.name.hash12 = Sha1("bytesB").head

\* C14: once a key has a record whose file is on disk (the state a successful
\* download leaves), a call for that key, with any URL or none and any hint,
\* fetches nothing, writes nothing, returns the recorded path and leaves the
\* record as it is, so every later call returns that same path while the file
\* stays; and no call ever removes a file of images/ or a record of state.images.
RepeatedResolveIsSafe ==
    [][calls' = calls + 1
       => (/\ files \subseteq files'
           /\ DOMAIN images \subseteq DOMAIN images'
           /\ (/\ Rec(images, aCall'.key).local # NoLocal
               /\ Rec(images, aCall'.key).local.name \in FileNames(files))
              => (/\ ~aCall'.fetched
                  /\ ~aCall'.wrote
                  /\ aCall'.ret = Rec(images, aCall'.key).local
                  /\ images' = images
                  /\ files' = files))]_vars

\* a key downloaded under one hint is resolved again under the other hint while
\* the other key has a record too: both records and both files are still there
RepeatedResolveWitness ==
    /\ aCall.net = "none"
    /\ ~aCall.stale
    /\ aCall.ret # NoLocal
    /\ aCall.ret = Rec(images, aCall.key).local
    /\ aCall.hint # aCall.ret.name.hint
    /\ Rec(images, aCall.key).updated < calls
    /\ DOMAIN images = Keys
    /\ \A k \in Keys : Rec(images, k).local.name \in FileNames(files)

\* C15: when the sync of one resource fails (fetchPageIfChanged or syncDatabase
\* lets a retry-exhausted call out), that unit has modified no snapshot file: the
\* page and database snapshots written earlier in the run are as they were, and
\* the failing resource's own file, which this run had not written, is still the
\* one from before the run.
FailingUnitWritesNoSnapshot ==
    [][Failed
       => (/\ pageFile' = pageFile
           /\ dbFile' = dbFile
           /\ pc \notin synced
           /\ pc \notin written)]_vars

\* a run failed in the reconcile of its database after its page had written its
\* snapshot: the page snapshot is on disk, the database has none
FailingUnitWitness ==
    /\ outcome = "failed"
    /\ last.threw
    /\ last.unit = "blog"
    /\ last.step = "write"
    /\ "culture" \in unsaved
    /\ pageFile["culture"].exists
    /\ ~dbFile["blog"].exists

\* C16: when fetchPageIfChanged finds the page changed and a children listing
\* of its tree, at the root or below, fails after its retries, the failure
\* leaves listBlocks and fetchPageIfChanged and ends the run: no snapshot file
\* is written, the state file, and with it state.pages[pageId], is as before, and
\* the page as the next run loads it is classified as changed.
PartialTreeAbortsPage ==
    [][(FetchedPage /\ last'.listThrew)
       => (/\ last'.threw
           /\ last'.changed
           /\ Failed
           /\ ~last'.wrote
           /\ pageFile' = pageFile
           /\ disk' = disk
           /\ Changed(LoadState(disk').state.pages[pc], upPage'[pc]))]_vars

\* the listing of a nested node failed after the root level had been listed in
\* full, for a page that has a snapshot and a PageState from an earlier run
PartialTreeWitness ==
    /\ last.step = "page"
    /\ last.listThrew
    /\ last.lists = 3
    /\ outcome = "failed"
    /\ pageFile[last.unit].exists
    /\ disk.exists
    /\ disk.pages[last.unit].last_edited_time = pageFile[last.unit].last_edited_time
    /\ disk.pages[last.unit].last_edited_time < upPage[last.unit]

\* C17 as stated: with fetchBlocksForRows enabled, when the block-tree fetch of
\* a changed row fails after its retries, the failure leaves syncDatabase: the
\* run ends there and the database's snapshot file is not written.  The code
\* catches the failure in the rows loop (a warning), stores the row without
\* blocks and goes on to write the snapshot, so this does not hold.
RowBlockFailureAbortsDb ==
    [][(/\ pc \in DbSlots
        /\ phase = "query"
        /\ fetchBlocksForRows
        /\ last'.unit = pc
        /\ last'.step = "query"
        /\ last'.listThrew)
       => (Failed /\ dbFile' = dbFile)]_vars

\* the children the remote holds under a node, page after page
RECURSIVE Flat(_)
Flat(pages) == IF pages = <<>> THEN <<>> ELSE Head(pages) \o Flat(Tail(pages))

\* got is the remote's children of a node: as many, the same nodes, the same order
SameLevel(got, pages) ==
    /\ Len(got) = Len(Flat(pages))
    /\ \A i \in 1..Len(got) :
         /\ got[i].id = Flat(pages)[i].id
         /\ got[i].type = Flat(pages)[i].type
         /\ got[i].has_children = Flat(pages)[i].has_children
         /\ got[i].url = Flat(pages)[i].url

\* C18: what listBlocks returns is, at each level, the concatenation in cursor
\* order of the pages the children listing served until has_more was false: no
\* node dropped, duplicated or moved, whatever assets were resolved and
\* whatever children were attached on the way.
ListBlocksKeepsRemoteOrder ==
    (listed.called /\ listed.ok)
    => (/\ SameLevel(listed.blocks, remote["root"])
        /\ \A i \in 1..Len(listed.blocks) :
             IF listed.blocks[i].has_children
               THEN /\ listed.blocks[i].children.present
                    /\ SameLevel(listed.blocks[i].children.list, remote[listed.blocks[i].id])
               ELSE ~listed.blocks[i].children.present)

\* a root of three blocks served in two pages, the children of "a" served in
\* two pages as well, and an asset of each level resolved to a local file
ListBlocksWitness ==
    /\ listed.called
    /\ listed.ok
    /\ Len(remote["root"]) = 2
    /\ Len(listed.blocks) = 3
    /\ \E i \in 1..Len(listed.blocks) :
         /\ listed.blocks[i].children.present
         /\ Len(remote[listed.blocks[i].id]) = 2
         /\ Len(listed.blocks[i].children.list) = 2
         /\ \E j \in 1..2 : listed.blocks[i].children.list[j].local # NoLocal
    /\ \E i \in 1..Len(listed.blocks) : listed.blocks[i].local # NoLocal

\* a run of IdLen hex characters starts at position k of the text
HexRunAt(t, k) ==
    /\ k \in 1..(Len(t) - IdLen + 1)
    /\ \A j \in k..(k + IdLen - 1) : IsHex(t[j])
HasHexRun(t) == \E k \in 1..Len(t) : HexRunAt(t, k)
FirstHexRun(t) ==
    LET k == CHOOSE k \in 1..Len(t) : HexRunAt(t, k) /\ \A l \in 1..(k - 1) : ~HexRunAt(t, l)
    IN  SubSeq(t, k, k + IdLen - 1)
OnlyHex(t) == \A i \in 1..Len(t) : IsHex(t[i])

\* r is the text t with its capital letters made small and nothing else changed
LoweredTo(t, r) ==
    /\ Len(r) = Len(t)
    /\ \A i \in 1..Len(t) :
         \/ r[i] = t[i] /\ \A n \in DOMAIN UpperCase : UpperCase[n] # t[i]
         \/ \E n \in DOMAIN UpperCase : UpperCase[n] = t[i] /\ r[i] = LowerCase[n]

\* C19: normalizeId maps a text of exactly 32 hex characters to itself in lower
\* case, a text of hyphens and 32 hex characters in all to its hex characters in
\* lower case, a text that holds a run of 32 hex characters to the first such
\* run in lower case, and "not-an-id", the empty text and an absent input to null.
NormalizerAcceptedShapes ==
    normalized.called
    => (/\ (~input.absent /\ Len(input.text) = IdLen /\ OnlyHex(input.text))
             => (~normalized.null /\ LoweredTo(input.text, normalized.id))
        /\ (/\ ~input.absent
            /\ \A i \in 1..Len(input.text) : IsHex(input.text[i]) \/ input.text[i] = "-"
            /\ Len(SelectSeq(input.text, IsHex)) = IdLen)
             => (/\ ~normalized.null
                 /\ LoweredTo(SelectSeq(input.text, IsHex), normalized.id))
        /\ (~input.absent /\ HasHexRun(input.text))
             => (~normalized.null /\ LoweredTo(FirstHexRun(input.text), normalized.id))
        /\ (input.absent \/ input.text = <<>> \/ input.text = NotAnId)
             => normalized.null)

\* a URL whose path ends in a run of 33 hex characters with capitals, followed
\* by a query string that holds a second run: the first 32 came back, in lower case
NormalizerUrlWitness ==
    /\ normalized.called
    /\ ~normalized.null
    /\ Len(input.text) = Len(PageUrl) + IdLen + 1 + 3 + IdLen
    /\ SubSeq(input.text, 1, Len(PageUrl)) = PageUrl
    /\ HexRunAt(input.text, Len(PageUrl) + 2)
    /\ HexRunAt(input.text, Len(input.text) - IdLen + 1)
    /\ normalized.id # SubSeq(input.text, Len(PageUrl) + 1, Len(PageUrl) + IdLen)
    /\ LoweredTo(SubSeq(input.text, Len(PageUrl) + 1, Len(PageUrl) + IdLen), normalized.id)

\* C20 as stated: a text without a run of 32 hex characters is accepted only
\* when, its hyphens removed, it is exactly 32 hex characters; so every non-null
\* result is 32 characters, all of them in [0-9a-f].  The code tests the length
\* of the hyphen-stripped text and nothing else, so this does not hold.
NormalizedIsLowerHex32 ==
    (normalized.called /\ ~normalized.null)
    => (/\ Len(normalized.id) = IdLen
        /\ \A i \in 1..Len(normalized.id) :
             normalized.id[i] \in {"0", "1", "2", "3", "4", "5", "6", "7", "8", "9",
                                   "a", "b", "c", "d", "e", "f"}
        /\ ~HasHexRun(input.text)
             => (/\ Len(WithoutHyphens(Trim(input.text))) = IdLen
                 /\ OnlyHex(WithoutHyphens(Trim(input.text)))))

\* C21 as stated: a URL that holds the identifier in the hyphenated 8-4-4-4-12
\* form, and no run of 32 hex characters, is accepted, and the result is the 32
\* hex characters of the identifier in lower case.  The code removes the hyphens
\* of the whole URL and tests the length of what is left, so this does not hold.
NormalizerUrlHyphenated ==
    \A p \in HexPatterns, post \in Suffixes :
        (/\ normalized.called
         /\ ~input.absent
         /\ input.text = PageUrl \o Hyphenate(Run(p, IdLen), {8, 12, 16, 20}, 1) \o post
         /\ ~HasHexRun(input.text))
        => (/\ ~normalized.null
            /\ LoweredTo(Run(p, IdLen), normalized.id))

\* main has just called loadState and set its mode
Loaded == pc = "off" /\ pc' # "off"

\* C22: loadState never throws.  With no state file, or one whose content does
\* not parse or parses to null or a primitive, it returns the fresh state: no
\* watermark, empty pages, dbItems and images.  For a file that parses to an
\* object the state it returns has all three maps, those of the file where the
\* file has them.  A run that starts from the fresh state is in full mode and
\* classifies every configured page as changed.
LoadStateNeverFatal ==
    [][Loaded
       => (/\ outcome' = "running"
           /\ mem'.missing = {}
           /\ (~disk.exists \/ disk.json # "object")
                => (mem' = FreshState /\ images' = NoImages)
           /\ (disk.exists /\ disk.json = "object")
                => (/\ "pages" \notin disk.missing => mem'.pages = disk.pages
                    /\ "dbItems" \notin disk.missing => mem'.dbItems = disk.dbItems
                    /\ "images" \notin disk.missing => images' = disk.images)
           /\ mem' = FreshState
                => (/\ fullMode'
                    /\ sinceISO' = NoTime
                    /\ \A p \in PageSlots \cap ids :
                         \A t \in 0..MaxTimeOfTwo : Changed(mem'.pages[p], t)))]_vars

\* a run that found a state file that does not parse fetched its page as
\* changed, in full mode, and wrote the snapshot
LoadStateWitness ==
    /\ disk.exists
    /\ disk.json = "garbage"
    /\ fullMode
    /\ last.step = "page"
    /\ last.changed
    /\ last.wrote
    /\ pageFile["home"].exists

\* C23: a slot whose identifier is missing is skipped and nothing else: main
\* goes on to the next slot without a remote call and without writing a file
\* or touching the state; the slots are gone through in their order; and the
\* run that reaches its end has synced every configured resource and saves the
\* state with a new watermark.
MissingIdSkipped ==
    [][/\ (pc \in Slots \ ids /\ pc' # pc)
            => (/\ pc' = After(pc)
                /\ UNCHANGED <<mem, disk, pageFile, dbFile, images, files, synced, written,
                               outcome, last>>)
       /\ (pc \in Slots /\ pc' \notin {pc, "off"}) => pc' = After(pc)
       /\ (pc = "save" /\ pc' = "off")
            => (/\ synced = ids
                /\ outcome' = "saved"
                /\ disk'.exists
                /\ disk'.lastSyncISO = now)]_vars

\* a run with the home and intro pages and the members database missing has
\* synced the culture page and the blog database and saved
MissingIdWitness ==
    /\ outcome = "saved"
    /\ ids = {"culture", "blog"}
    /\ pageFile["culture"].exists
    /\ dbFile["blog"].exists
    /\ \A p \in PageSlots \ ids : ~pageFile[p].exists
    /\ ~dbFile["members"].exists
    /\ disk.exists
    /\ disk.lastSyncISO = now
    /\ disk.pages["home"] = NoPage

\* the setting is absent or holds nothing but white space
Blank(v) == v.absent \/ \A i \in 1..Len(v.text) : v.text[i] \in WhiteSpace

\* C24: the token of the config file is the one used whenever it is not blank;
\* the NOTION_TOKEN of the environment is used only when the config value is
\* absent or blank; with both absent or blank the process exits with status 1
\* and main never starts: no remote call, no state load, no file written.
TokenPriority ==
    booted # "no"
    => (/\ ~Blank(tokens.cfg) => (booted = "client" /\ auth = Trim(tokens.cfg.text))
        /\ (Blank(tokens.cfg) /\ ~Blank(tokens.env))
             => (booted = "client" /\ auth = Trim(tokens.env.text))
        /\ (Blank(tokens.cfg) /\ Blank(tokens.env))
             => (/\ booted = "exit1"
                 /\ pc = "off"
                 /\ outcome = "none"
                 /\ saves = 0
                 /\ disk = NoStateFile
                 /\ last = NoLast))

\* the config holds a blank token and the environment one between white space:
\* the run used the environment's, trimmed, and went to its end
TokenWitness ==
    /\ booted = "client"
    /\ tokens.cfg = [absent |-> FALSE, text |-> <<"\t", " ">>]
    /\ tokens.env = [absent |-> FALSE, text |-> <<" ", "s", "1", "\n">>]
    /\ auth = <<"s", "1">>
    /\ outcome = "saved"

\* positions of the queue
Ahead == {queue'[i] : i \in 1..Len(queue')}

\* C25: at most one remote call or download is in flight at any time; no two
\* calls in flight write the same asset key; a snapshot is written with nothing
\* in flight; while a collection is being synced no page is left to sync; and
\* within a collection no call of an earlier row is left once a later row began.
SequentialIO ==
    [][/\ Cardinality(flight') <= 1
       /\ \A a, b \in flight' : a # b => a.target # b.target
       /\ (queue' # queue /\ Head(queue).kind = "write") => flight = {}
       /\ \A o \in flight' :
            /\ o.unit \in DbSlots => \A q \in Ahead : q.unit \notin PageSlots
            /\ \A q \in Ahead : q.unit = o.unit => q.row >= o.row]_vars

\* the second file entry of the second row of the second collection is being
\* downloaded, after the pages and the first collection, and nothing else is
SequentialIOWitness ==
    /\ flight = {Op("blog", 2, "download", "E", "prop:files:1")}
    /\ Len(queue) >= 3

\* C26: within one row two distinct binary slots (the cover, or entry i of
\* files property P) never get the same asset key, whatever ':' and digits the
\* property names hold, so the record of one is never found for the other.
RowKeysDistinct ==
    (slotKeys # NoKeys /\ slots[1] # slots[2])
    => (slotKeys[1] # slotKeys[2] /\ ~crossHit)

\* entry 10 of property "a" next to entry 0 of property "a:1"
RowKeysWitness ==
    /\ slotKeys # NoKeys
    /\ slots[1] = [kind |-> "file", name |-> <<"a">>, i |-> 10]
    /\ slots[2] = [kind |-> "file", name |-> <<"a", ":", "1">>, i |-> 0]
    /\ ~crossHit

\* C27: once pages.retrieve has answered, fetchPageIfChanged classifies the
\* page as changed exactly when state.pages holds no entry for it or the remote
\* last_edited_time is strictly greater than the stored one; an equal or an
\* older remote stamp is classified as unchanged.
PageChangeRule ==
    [][(FetchedPage /\ last'.retrieved)
       => (/\ last'.changed <=> (\/ mem.pages[pc] = NoPage
                                 \/ upPage[pc] > mem.pages[pc].last_edited_time)
           /\ (mem.pages[pc] # NoPage /\ upPage[pc] <= mem.pages[pc].last_edited_time)
                => (~last'.changed /\ ~last'.wrote /\ last'.lists = 0))]_vars

\* the state file holds a later stamp for the page than the remote answers:
\* the page was classified as unchanged
PageChangeWitness ==
    /\ last.unit = "home"
    /\ last.step = "page"
    /\ last.retrieved
    /\ ~last.changed
    /\ mem.pages["home"] # NoPage
    /\ upPage["home"] < mem.pages["home"].last_edited_time

\* a page step that found the page changed, with no cover in its metadata,
\* and wrote the snapshot
SyncedWithoutCover == FetchedPage /\ last'.changed /\ last'.wrote /\ ~last'.cover

\* C28: when a changed page has no cover in its metadata and a cover path was
\* cached for it before, in the asset record of page:<id>:cover or in the
\* stored entry of state.pages, the cover_local of the snapshot and of the
\* updated entry is that cached path; it is null only when neither holds one.
CoverFallback ==
    [][SyncedWithoutCover
       => (/\ pageFile'[pc].cover_local = last'.returned.cover_local
           /\ mem'.pages[pc].cover_local = last'.returned.cover_local
           /\ Rec(images, CoverKey(pc)).local # NoLocal
                => last'.returned.cover_local = Rec(images, CoverKey(pc)).local
           /\ (Rec(images, CoverKey(pc)).local = NoLocal /\ mem.pages[pc].cover_local # NoLocal)
                => last'.returned.cover_local = mem.pages[pc].cover_local
           /\ last'.returned.cover_local = NoLocal
                <=> (/\ Rec(images, CoverKey(pc)).local = NoLocal
                     /\ mem.pages[pc].cover_local = NoLocal))]_vars

\* the page has no cover upstream and no asset record, but the state file held
\* a cover path for it: the snapshot of the run names that path
CoverFallbackWitness ==
    /\ last.unit = "home"
    /\ last.step = "page"
    /\ last.wrote
    /\ ~last.cover
    /\ CoverKey("home") \notin DOMAIN images
    /\ pageFile["home"].cover_local # NoLocal
    /\ mem.pages["home"].cover_local = pageFile["home"].cover_local

\* C29: a page step that finds the page changed and in which nothing throws
\* writes one snapshot file, page-<alias>.json, holding the metadata's stamp,
\* the whole block tree and cover_local, and sets state.pages[pageId] to the
\* remote last_edited_time and the resolved cover path; the other snapshot
\* files and the other entries of state.pages stay as they were.  When the
\* write throws, state.pages has not been set: the assignment comes after it.
ChangedPageEffect ==
    [][FetchedPage
       => (/\ (last'.changed /\ ~last'.threw)
                => (/\ last'.wrote
                    /\ last'.fname = <<"page-", Alias[pc], ".json">>
                    /\ last'.lists = Cardinality(ListRequests(pc))
                    /\ pageFile'[pc] = [exists |-> TRUE, last_edited_time |-> upPage[pc],
                                        blocks |-> last'.returned.blocks,
                                        cover_local |-> last'.returned.cover_local]
                    /\ [i \in 1..Len(pageFile'[pc].blocks) |-> pageFile'[pc].blocks[i].id]
                         = <<pc \o ".text", pc \o ".img">>
                    /\ \A q \in PageSlots \ {pc} : pageFile'[q] = pageFile[q]
                    /\ dbFile' = dbFile
                    /\ last'.stateSet
                    /\ mem'.pages[pc] = [last_edited_time |-> upPage[pc],
                                         cover_local |-> pageFile'[pc].cover_local]
                    /\ \A q \in PageSlots \ {pc} : mem'.pages[q] = mem.pages[q])
           /\ last'.threw => (~last'.stateSet /\ ~last'.wrote /\ pageFile' = pageFile))]_vars

\* the second page of a run was synced as changed after the first: its
\* snapshot is written and the first page's entry is still what it was
ChangedPageWitness ==
    /\ last.unit = "intro"
    /\ last.step = "page"
    /\ last.changed
    /\ last.wrote
    /\ last.fname = <<"page-", "introduction", ".json">>
    /\ mem.pages["home"] # NoPage
    /\ mem.pages["intro"].last_edited_time = upPage["intro"]
    /\ pageFile["intro"].exists

\* the snapshot holds no id twice; a row of a changed id is the representation
\* fetched last for that id, whole; any other row is a stored row, as stored
UpsertedRows(out, old, fresh, changedIds) ==
    /\ \A i, j \in 1..Len(out) : out[i].id = out[j].id => i = j
    /\ \A i \in 1..Len(out) :
         IF out[i].id \in changedIds
           THEN \E k \in 1..Len(fresh) :
                  /\ fresh[k] = out[i]
                  /\ \A l \in (k + 1)..Len(fresh) : fresh[l].id # out[i].id
           ELSE \E k \in 1..Len(old) : old[k] = out[i]

\* C30 as the claim states it: the snapshot syncDatabase writes holds every
\* changed row with its just-fetched representation, every stored row that did
\* not change as it was stored, and no id twice.
RowUpsertKeepsAll ==
    [][WroteRows
       => (/\ UpsertedRows(dbFile'[pc].results, Stored(dbFile[pc]), last.fresh, last.changedIds)
           /\ last.changedIds \cup last.before \subseteq IdsOf(dbFile'[pc].results))]_vars

\* C30: the snapshot syncDatabase writes holds no id twice; a row of a changed
\* id is the representation just fetched for it, with its local paths, in
\* place of the stored row; any other row is a stored row as it was stored.  In
\* incremental mode every changed and every stored id is in the snapshot; in
\* full mode those absent from the ids fullIdsInDatabase returned are removed.
RowUpsertLastWriteWins ==
    [][WroteRows
       => (/\ UpsertedRows(dbFile'[pc].results, Stored(dbFile[pc]), last.fresh, last.changedIds)
           /\ IdsOf(dbFile'[pc].results)
                = IF fullMode THEN (last.changedIds \cup last.before) \cap last'.fullIds
                              ELSE last.changedIds \cup last.before)]_vars

\* an incremental call replaced a stored row by the representation it fetched
\* and kept another stored row that the query did not return
RowUpsertWitness ==
    /\ last.step = "write"
    /\ last.wrote
    /\ ~fullMode
    /\ \E r \in last.before \cap last.changedIds :
         \E i \in 1..Len(dbFile[last.unit].results) :
           /\ dbFile[last.unit].results[i].id = r
           /\ dbFile[last.unit].results[i] = last.fresh[Len(last.fresh)]
           /\ dbFile[last.unit].results[i].cover_local # NoLocal
    /\ last.before \ last.changedIds # {}

\* a step in which syncDatabase goes from its changed-rows loop to its end
ReconciledRows == pc \in DbSlots /\ phase = "write" /\ last'.step = "write"

\* C31: a run is in full mode exactly when FULL_RECONCILE is set or the loaded
\* state has no watermark; an incremental run has a sinceISO, the watermark
\* less the margin, and every collection query of it carries the filter with
\* that bound; the changed-rows query of a full run carries no filter; and an
\* incremental run enumerates no ids and removes no row.
ModeDecision ==
    [][/\ Loaded
            => (/\ fullMode' <=> (last'.forced \/ LoadState(disk).state.lastSyncISO = NoTime)
                /\ fullMode' => sinceISO' = NoTime
                /\ ~fullMode' => (/\ sinceISO' # NoTime
                                  /\ sinceISO' = disk.lastSyncISO - MarginMinutes))
       /\ QueriedRows
            => (/\ last'.sent # {}
                /\ fullMode => last'.sent = {NoFilter}
                /\ ~fullMode => \A f \in last'.sent :
                                   /\ f.timestamp = "last_edited_time"
                                   /\ f.value = sinceISO
                                   /\ f.value # NoTime)
       /\ (ReconciledRows /\ ~fullMode)
            => (/\ ~last'.threw
                /\ last'.fullIds = {}
                /\ IdsOf(dbFile'[pc].results) = last.before \cup last.changedIds)]_vars

\* FULL_RECONCILE forced a run that loaded a watermark into full mode: its
\* collection was queried without a filter, enumerated and written
ModeDecisionWitness ==
    /\ last.step = "write"
    /\ last.wrote
    /\ fullMode
    /\ disk.exists
    /\ disk.lastSyncISO # NoTime
    /\ last.sent = {NoFilter}
    /\ last.fullIds # {}

\* the nodes listBlocks returned for the children of id, to any depth: a node
\* holds children exactly when the remote reports has_children, those are the
\* listing of its own children, and its local is the path the cache holds for
\* its key, none for a node that is neither image nor file
RECURSIVE Attached(_, _)
Attached(got, id) ==
    /\ Len(got) = Len(Flat(remote[id]))
    /\ \A i \in 1..Len(got) :
         /\ got[i].has_children = Flat(remote[id])[i].has_children
         /\ IF got[i].has_children
              THEN got[i].children.present /\ Attached(got[i].children.list, got[i].id)
              ELSE got[i].children = NoChildren
         /\ got[i].local = IF got[i].type \in {"image", "file"}
                             THEN Rec(images, BlockKey(got[i].id, got[i].type)).local
                             ELSE NoLocal

\* C32: in the tree listBlocks returns a node holds children if and only if
\* the remote node has has_children true, to any depth, and the children are
\* the listing of that node; a node without has_children gets no children
\* field; an image or file node gets a local path only when the asset cache
\* returned one, and no other node gets one.
ChildrenAttachedWhereReported ==
    (listed.called /\ listed.ok) => Attached(listed.blocks, "root")

\* a tree three levels deep: the grandchild's image was resolved and it holds
\* no children, and a leaf of the root holds neither children nor a path
ChildrenAttachedWitness ==
    /\ listed.called
    /\ listed.ok
    /\ \E i \in 1..Len(listed.blocks) :
         /\ listed.blocks[i].id = "a"
         /\ \E j \in 1..Len(listed.blocks[i].children.list) :
              /\ listed.blocks[i].children.list[j].id = "e"
              /\ Len(listed.blocks[i].children.list[j].children.list) = 1
              /\ listed.blocks[i].children.list[j].children.list[1].local # NoLocal
              /\ listed.blocks[i].children.list[j].children.list[1].children = NoChildren
    /\ \E i \in 1..Len(listed.blocks) :
         /\ listed.blocks[i].id = "c"
         /\ listed.blocks[i].children = NoChildren
         /\ listed.blocks[i].local = NoLocal

\* C33: withRetry invokes the operation at most tries times and then returns
\* or throws; the pagination loops end once has_more is false; and a run, all
\* its calls made one after the other, eventually saves the state or exits
\* with an error.
RunTerminates ==
    /\ [](rCalls <= rTries)
    /\ [](rPc = "try" => <>(rPc \in {"returned", "thrown"}))
    /\ <>(ended \in {"saved", "failed"})

\* a run of both collections came to saveState
RunTerminatesWitness ==
    /\ ended = "saved"
    /\ queue = <<>>

\* the stamp the stored snapshot of collection d holds for row r
StoredStamp(d, r) ==
    LET rows == Stored(dbFile[d])
    IN  rows[CHOOSE i \in 1..Len(rows) : rows[i].id = r].last_edited_time

\* C34 as the claim states it: no upstream edit is lost between successful
\* runs.  When an incremental run queries a collection, every row that was
\* edited upstream after the run before fetched it, so that its stamp is later
\* than the one in the stored snapshot, is returned by the filtered query,
\* however long the run before took from its query to its saveState.
NoEditLost ==
    [][(QueriedRows /\ ~fullMode /\ ~last'.threw /\ unsaved = {})
       => \A r \in DOMAIN upRows[pc] :
            (/\ upRows[pc][r] # NoTime
             /\ r \in IdsOf(Stored(dbFile[pc]))
             /\ upRows[pc][r] > StoredStamp(pc, r))
            => r \in last'.changedIds]_vars

\* the record of key k was created or overwritten by the step
RecordWritten(k) == k \notin DOMAIN images \/ images'[k] # images[k]

\* C35: whatever downloadFileCached calls are made, a record of state.images
\* is created or overwritten only by the call for its key and only when that
\* call fetched the bytes and did not fail; the record's local is
\* ./images/<hint>-<first 12 hex digits of the hash>.<ext> for the hint and the
\* URL of that call, its hash field holds the digest those 12 digits begin, its
\* size is the length of the fetched bytes, and the file it names is on disk
\* when the record is written; no step ever removes a key of state.images.
AssetRecordInvariant ==
    [][/\ DOMAIN images \subseteq DOMAIN images'
       /\ \A k \in DOMAIN images' :
            RecordWritten(k)
            => (/\ calls' = calls + 1
                /\ aCall'.key = k
                /\ aCall'.fetched
                /\ ~aCall'.caught
                /\ aCall'.net \in {"ok", "write"}
                /\ images'[k].local =
                     [dir |-> "./images",
                      name |-> [hint |-> aCall'.hint,
                                hash12 |-> Sha1(aCall'.bytes).head,
                                ext |-> SafeExtFromUrl(aCall'.url)]]
                /\ images'[k].hash = <<"sha1:", images'[k].local.name.hash12,
                                        Sha1(aCall'.bytes).tail>>
                /\ images'[k].size = ByteLength(aCall'.bytes)
                /\ images'[k].last_url = aCall'.url
                /\ images'[k].local.name \in FileNames(files')
                /\ aCall'.ret = images'[k].local)]_vars

\* a second key got its record by a download that wrote its file, after the
\* first key's record was overwritten by a later download
AssetRecordWitness ==
    /\ calls = MaxCalls
    /\ DOMAIN images = Keys
    /\ aCall.fetched
    /\ aCall.wrote
    /\ images[aCall.key].updated = calls
    /\ images[aCall.key].size = ByteLength(aCall.bytes)
    /\ \E k \in Keys \ {aCall.key} : images[k].updated = calls - 1

\* the rows of a list as the remote identifies them: id and stamp
Plain(rows) == [i \in 1..Len(rows) |-> <<rows[i].id, rows[i].last_edited_time>>]
RowsOf(results) == {results[i] : i \in 1..Len(results)}

\* a call of syncDatabase has just written its snapshot, and the query of a
\* second call with the same options finds the rows the first one found
SyncedOnce ==
    /\ ReconciledRows
    /\ ~last'.threw
    /\ Plain(QueryDatabaseIncremental(upRows[pc], RowOrder(upRows[pc]),
                                      IF fullMode THEN NoTime ELSE sinceISO, 0).all)
         = Plain(last.fresh)

\* a second call right after the one that has just written, with the same
\* options, the same upstream and no failing query, on the records imgs
SyncedAgain(served, imgs) ==
    SyncDatabase(upRows[pc], Stored(dbFile'[pc]), mem.dbItems, fullMode, sinceISO,
                 [failAt |-> NoFail, served |-> served, now |-> now,
                  fetchBlocksForRows |-> fetchBlocksForRows],
                 Effects(imgs, files), 0, 0)

SameSnapshot(second) ==
    /\ IdsOf(second.results) = IdsOf(dbFile'[pc].results)
    /\ RowsOf(second.results) = RowsOf(dbFile'[pc].results)

\* every asset of the rows resolved to a local path
AllResolved(rows) ==
    \A i \in 1..Len(rows) :
      /\ rows[i].cover # Null => rows[i].cover_local # NoLocal
      /\ \A j \in 1..Len(rows[i].files) :
           ~Absent(rows[i].files[j]) => rows[i].locals[j] # NoLocal

AllServed == [u \in RunUrls |-> [kind |-> "ok", bytes |-> "bytesA"]]

====
